---- MODULE Spec2Model ----
(***************************************************************************)
(* Local cache and synchronisation layer of the property-inspection app:   *)
(*   - PhotoCache        (src/src/lib/photo-cache.ts)                       *)
(*   - batchFetchPhotoData and the optimistic mutation hooks                *)
(*                       (src/unnamed/part_001, the use-database hooks)     *)
(*   - the debounced text edits of the inspection edit page                 *)
(*                       (src/src/pages/inspection-edit-page.tsx)           *)
(* Strings are modelled as sequences of one-character strings, so that key  *)
(* formatting and prefix tests are computed and not assumed.                *)
(***************************************************************************)
EXTENDS Integers, Sequences, FiniteSets, TLC

\* ------------------------------------------------------------------------
\* Program constants
\* ------------------------------------------------------------------------
MAX_CACHE_SIZE_MB == 100
CACHE_EXPIRY_DAYS == 7
DEBOUNCE_MS == 500

BytesPerMB == 1024 * 1024
MsPerDay == 1000 * 60 * 60 * 24
maxSizeBytes == MAX_CACHE_SIZE_MB * 1024 * 1024
TtlMs == CACHE_EXPIRY_DAYS * MsPerDay

\* ------------------------------------------------------------------------
\* Bounds of the model
\* ------------------------------------------------------------------------
\* the clock is read at 0..MaxClockSlack ms and at TtlMs..TtlMs+MaxClockSlack ms
MaxClockSlack == 1

InspectionIds == {<<"a">>, <<"b">>}
PhotoIds == {<<"1">>, <<"2">>}
\* the photos the application holds: two of inspection a, one of inspection b
Photos == {<<<<"a">>, <<"1">>>>, <<<<"a">>, <<"2">>>>, <<<<"b">>, <<"1">>>>}
Instants == (0..MaxClockSlack) \cup (TtlMs..(TtlMs + MaxClockSlack))

\* ------------------------------------------------------------------------
\* Values
\* ------------------------------------------------------------------------
\* a data URL: its content and its size in bytes as Blob([dataUrl]).size gives it
Url(body, mb) == [body |-> body, len |-> mb * BytesPerMB]
Null == [body |-> "null", len |-> 0]
EmptyUrl == [body |-> "", len |-> 0]
DataUrls == {Url("x", 40), Url("z", 60), Url("v", 120)}

SizeOf(dataUrl) == dataUrl.len

CacheKey(inspectionId, photoId) == inspectionId \o <<":">> \o photoId
AllKeys == {CacheKey(ph[1], ph[2]) : ph \in Photos}

NoEntry == [dataUrl |-> Null, timestamp |-> -1, sizeBytes |-> 0]
CachedPhoto(dataUrl, timestamp) ==
    [dataUrl |-> dataUrl, timestamp |-> timestamp, sizeBytes |-> SizeOf(dataUrl)]

NoKey == <<>>
NoStats == [count |-> 0, sizeBytes |-> 0]
EmptyMap == [id \in {} |-> Null]

VARIABLES
    store,        \* object store 'photos': key -> CachedPhoto or NoEntry
    db,           \* "unopened" | "open" | "failed" (initPromise rejected)
    now,          \* Date.now()
    pendingDel,   \* key of the delete a get has started without awaiting it
    lastOp        \* the last PhotoCache call that settled, and how

VARIABLES
    remote,       \* table kv_store_be68fc60 of the server: key -> value or Null
    fetch         \* the batchFetchPhotoData call in progress

cacheVars == <<store, db, now, pendingDel, lastOp>>
fetchVars == <<remote, fetch>>

\* ------------------------------------------------------------------------
\* PhotoCache: pure parts
\* ------------------------------------------------------------------------
Present(s, k) == k \in DOMAIN s /\ s[k] # NoEntry
PresentKeys(s) == {k \in DOMAIN s : Present(s, k)}

RECURSIVE SumSizes(_, _)
SumSizes(s, ks) ==
    IF ks = {} THEN 0
    ELSE LET k == CHOOSE x \in ks : TRUE
         IN s[k].sizeBytes + SumSizes(s, ks \ {k})

\* getTotalSize: getAll() then reduce over sizeBytes
getTotalSize(s) == SumSizes(s, PresentKeys(s))

\* comparison of string keys, code unit by code unit (IndexedDB key order)
Digits == <<"0", "1", "2", "3", "4", "5", "6", "7", "8", "9">>
CharCode == [c \in {Digits[n] : n \in 1..10} \cup {":", "a", "b", "u"} |->
               CASE c = ":" -> 58 [] c = "a" -> 97 [] c = "b" -> 98 [] c = "u" -> 117
                 [] OTHER -> 47 + (CHOOSE n \in 1..10 : Digits[n] = c)]

RECURSIVE StrLess(_, _)
StrLess(x, y) ==
    IF y = <<>> THEN FALSE
    ELSE IF x = <<>> THEN TRUE
    ELSE IF Head(x) # Head(y) THEN CharCode[Head(x)] < CharCode[Head(y)]
    ELSE StrLess(Tail(x), Tail(y))

\* (variant: the cursor is opened on the store and not on the timestamp index)
TimestampOrders_NoIndex(s) ==
    LET ks == PresentKeys(s)
        n == Cardinality(ks)
    IN {o \in [1..n -> ks] : \A a, b \in 1..n : a # b => o[a] # o[b]}

\* the order in which a cursor on the 'timestamp' index visits the store:
\* ascending timestamp, entries with equal timestamps by ascending primary key
TimestampOrders(s) ==
    LET ks == PresentKeys(s)
        n == Cardinality(ks)
    IN {o \in [1..n -> ks] :
           /\ \A a, b \in 1..n : a # b => o[a] # o[b]
           /\ \A a, b \in 1..n : a < b =>
                 \/ s[o[a]].timestamp < s[o[b]].timestamp
                 \/ /\ s[o[a]].timestamp = s[o[b]].timestamp
                    /\ StrLess(o[a], o[b])}

\* the cursor loop of cleanOldest: delete while a cursor exists and
\* freedBytes < neededBytes
RECURSIVE CleanLoop(_, _, _, _)
CleanLoop(s, ord, freedBytes, neededBytes) ==
    IF ord # <<>> /\ freedBytes < neededBytes
    THEN CleanLoop([s EXCEPT ![Head(ord)] = NoEntry], Tail(ord),
                   freedBytes + s[Head(ord)].sizeBytes, neededBytes)
    ELSE s

cleanOldest(s, ord, neededBytes) == CleanLoop(s, ord, 0, neededBytes)

\* (variant: the incoming payload is left out of the capacity test)
NeedsCleaning_NoIncoming(currentSize, sizeBytes) == currentSize > maxSizeBytes

\* the capacity test of set
NeedsCleaning(currentSize, sizeBytes) == currentSize + sizeBytes > maxSizeBytes

\* (variant: an entry of age exactly CACHE_EXPIRY_DAYS counts as expired)
IsExpired_Inclusive(timestamp, t) == (t - timestamp) >= CACHE_EXPIRY_DAYS * MsPerDay

\* the expiry test of get and batchGet: ageDays > CACHE_EXPIRY_DAYS, where
\* ageDays = ageMs / (1000*60*60*24) is a real division, so the test is
\* ageMs > CACHE_EXPIRY_DAYS * MsPerDay
IsExpired(timestamp, t) == (t - timestamp) > CACHE_EXPIRY_DAYS * MsPerDay

\* (variant: batchGet leaves out an entry of age exactly CACHE_EXPIRY_DAYS)
IsFresh_Strict(timestamp, t) == (t - timestamp) < CACHE_EXPIRY_DAYS * MsPerDay

\* the test of batchGet: ageDays <= CACHE_EXPIRY_DAYS
IsFresh(timestamp, t) == (t - timestamp) <= CACHE_EXPIRY_DAYS * MsPerDay

\* (variant: a set that had to evict returns without writing)
SetStore_DropWhenFull(s, key, dataUrl, t, ord) ==
    LET sizeBytes == SizeOf(dataUrl)
        currentSize == getTotalSize(s)
    IN IF NeedsCleaning(currentSize, sizeBytes)
       THEN cleanOldest(s, ord, sizeBytes)
       ELSE (key :> CachedPhoto(dataUrl, t)) @@ s

\* set with a working medium: evict if needed, then put
SetStore(s, key, dataUrl, t, ord) ==
    LET sizeBytes == SizeOf(dataUrl)
        currentSize == getTotalSize(s)
        cleaned == IF NeedsCleaning(currentSize, sizeBytes)
                   THEN cleanOldest(s, ord, sizeBytes)
                   ELSE s
    IN (key :> CachedPhoto(dataUrl, t)) @@ cleaned

\* deleteInspection: cursor over the store, delete keys starting with id + ':'
StartsWith(str, prefix) ==
    /\ Len(str) >= Len(prefix)
    /\ SubSeq(str, 1, Len(prefix)) = prefix

\* (variant: the cursor deletes every entry it visits)
DeleteInspectionStore_All(s, inspectionId) == [k \in DOMAIN s |-> NoEntry]

DeleteInspectionStore(s, inspectionId) ==
    [k \in DOMAIN s |->
        IF Present(s, k) /\ StartsWith(k, inspectionId \o <<":">>)
        THEN NoEntry ELSE s[k]]

\* batchGet: the map of the ids whose lookup succeeded, found an entry and
\* the entry is not expired; errIds are the ids whose request errored
BatchGetMap(s, inspectionId, photoIds, t, errIds) ==
    LET ids == {photoIds[n] : n \in 1..Len(photoIds)}
        hits == {id \in ids :
                    /\ id \notin errIds
                    /\ Present(s, CacheKey(inspectionId, id))
                    /\ IsFresh(s[CacheKey(inspectionId, id)].timestamp, t)}
    IN [id \in hits |-> s[CacheKey(inspectionId, id)].dataUrl]

\* (variant: the promise is resolved by the first lookup that completes)
ResolveAt_First(total) == 1

\* `if (completed === total) resolve(results)`
ResolveAt(total) == total

Perms(n) == {o \in [1..n -> 1..n] : \A a, b \in 1..n : a # b => o[a] # o[b]}

\* batchGet, lookup by lookup in the order `order` in which they complete:
\* onsuccess sets results[photoId] for an entry that is not expired, onerror
\* sets nothing; both count the lookup and resolve when the count is right.
\* `run` holds the Map, the count and the values resolve was called with.
RECURSIVE BatchGetRun(_, _, _, _, _, _, _)
BatchGetRun(s, inspectionId, photoIds, t, failed, order, run) ==
    IF order = <<>> THEN run
    ELSE LET n == Head(order)
             photoId == photoIds[n]
             key == CacheKey(inspectionId, photoId)
             hit == /\ n \notin failed
                    /\ Present(s, key)
                    /\ IsFresh(s[key].timestamp, t)
             results == IF hit THEN (photoId :> s[key].dataUrl) @@ run.results
                        ELSE run.results
             completed == run.completed + 1
             resolved == IF completed = ResolveAt(Len(photoIds))
                         THEN Append(run.resolved, results) ELSE run.resolved
         IN BatchGetRun(s, inspectionId, photoIds, t, failed, Tail(order),
                        [results |-> results, completed |-> completed,
                         resolved |-> resolved])

\* the settled call: the first value resolve was called with, and the calls
BatchGetSettled(s, inspectionId, photoIds, t, failed, order) ==
    LET start == [results |-> EmptyMap, completed |-> 0,
                  resolved |-> IF Len(photoIds) = 0 THEN <<EmptyMap>> ELSE <<>>]
        run == BatchGetRun(s, inspectionId, photoIds, t, failed, order, start)
    IN [map |-> run.resolved[1], resolves |-> Len(run.resolved)]

\* init(): opens the database once; a failed open leaves initPromise rejected
InitDb(d, openFails) ==
    IF d = "unopened" THEN (IF openFails THEN "failed" ELSE "open") ELSE d

\* what is remembered of a settled call
Op(kind, key, outcome) ==
    [kind |-> kind, key |-> key, outcome |-> outcome,
     dataUrl |-> Null,     \* set: the payload passed
     evicted |-> 0,        \* set: how many entries cleanOldest deleted;
                           \* delete, deleteInspection: how many they deleted
     result |-> Null,      \* get: the value resolved
     age |-> -1,           \* get: now - timestamp of the entry read, -1 if none
     prevSet |-> Null,     \* get: payload of the set of the same key that
                           \*      settled right before this call, if any
     stats |-> NoStats,    \* getStats: the value resolved
     map |-> EmptyMap,     \* batchGet: the value resolved
     ids |-> {},           \* batchGet: the ids passed
     failed |-> {},        \* batchGet: the ids whose request errored
     resolves |-> 0]       \* batchGet: how many times resolve was called

NoOp == Op("none", NoKey, "resolved")

\* ------------------------------------------------------------------------
\* PhotoCache: the operations, one call at a time.  `fault` says where the
\* persistent medium fails during the call: "none", "open" (indexedDB.open
\* errors), or the request that errors.
\* A get that finds an expired entry calls this.delete without awaiting it;
\* delete creates its transaction one microtask later, before the caller of
\* get can continue, so that transaction runs before those of any later call.
\* ------------------------------------------------------------------------
MaxBatch == 2

RECURSIVE SeqsUpTo(_, _)
SeqsUpTo(S, n) ==
    IF n = 0 THEN {<<>>}
    ELSE LET shorter == SeqsUpTo(S, n - 1)
         IN shorter \cup {Append(q, x) : q \in {r \in shorter : Len(r) = n - 1}, x \in S}

IdLists == SeqsUpTo(PhotoIds, MaxBatch)

CanCall(fault) ==
    /\ pendingDel = NoKey
    /\ (fault = "open") => (db = "unopened")

Settle(op) == lastOp' = op

\* async set(inspectionId, photoId, dataUrl)
CacheSet(inspectionId, photoId, dataUrl, fault) ==
    LET key == CacheKey(inspectionId, photoId)
        sizeBytes == SizeOf(dataUrl)
        d == InitDb(db, fault = "open")
        dirty == NeedsCleaning(getTotalSize(store), sizeBytes)
    IN /\ CanCall(fault)
       /\ fault \in {"none", "open", "size", "clean", "put"}
       /\ (fault = "clean") => (d = "open" /\ dirty)
       /\ db' = d
       /\ UNCHANGED <<now, pendingDel>>
       /\ IF d # "open" \/ fault \in {"size", "clean"}
          THEN \* caught by the try/catch of set: logged, nothing written
               /\ store' = store
               /\ Settle([Op("set", key, "resolved") EXCEPT !.dataUrl = dataUrl])
          ELSE \E ord \in TimestampOrders(store) :
               LET cleaned == IF dirty THEN cleanOldest(store, ord, sizeBytes) ELSE store
                   evicted == Cardinality(PresentKeys(store)) - Cardinality(PresentKeys(cleaned))
               IN IF fault = "put"
                  THEN \* request.onerror of the put: reject(request.error) from
                       \* the promise that set returns without awaiting it
                       /\ store' = cleaned
                       /\ Settle([Op("set", key, "rejected") EXCEPT
                                    !.dataUrl = dataUrl, !.evicted = evicted])
                  ELSE /\ store' = SetStore(store, key, dataUrl, now, ord)
                       /\ Settle([Op("set", key, "resolved") EXCEPT
                                    !.dataUrl = dataUrl, !.evicted = evicted])

\* async get(inspectionId, photoId)
CacheGet(inspectionId, photoId, fault) ==
    LET key == CacheKey(inspectionId, photoId)
        d == InitDb(db, fault = "open")
        cached == store[key]
        ageMs == now - cached.timestamp
        prevSet == IF lastOp.kind = "set" /\ lastOp.key = key /\ lastOp.outcome = "resolved"
                   THEN lastOp.dataUrl ELSE Null
    IN /\ CanCall(fault)
       /\ fault \in {"none", "open", "req"}
       /\ db' = d
       /\ UNCHANGED <<store, now>>
       /\ IF d # "open"
          THEN /\ pendingDel' = NoKey
               /\ Settle(Op("get", key, "resolved"))
          ELSE IF fault = "req"
          THEN /\ pendingDel' = NoKey
               /\ Settle(Op("get", key, "rejected"))
          ELSE IF cached = NoEntry
          THEN /\ pendingDel' = NoKey
               /\ Settle([Op("get", key, "resolved") EXCEPT !.prevSet = prevSet])
          ELSE IF IsExpired(cached.timestamp, now)
          THEN /\ pendingDel' = key
               /\ Settle([Op("get", key, "resolved") EXCEPT !.age = ageMs, !.prevSet = prevSet])
          ELSE /\ pendingDel' = NoKey
               /\ Settle([Op("get", key, "resolved") EXCEPT
                            !.result = cached.dataUrl, !.age = ageMs, !.prevSet = prevSet])

\* the delete that get started for an expired entry
DeferredDelete(fault) ==
    /\ pendingDel # NoKey
    /\ fault \in {"none", "req"}
    /\ store' = (IF fault = "req" THEN store ELSE [store EXCEPT ![pendingDel] = NoEntry])
    /\ pendingDel' = NoKey
    /\ UNCHANGED <<db, now, lastOp>>

\* async delete(inspectionId, photoId)
CacheDelete(inspectionId, photoId, fault) ==
    LET key == CacheKey(inspectionId, photoId)
        d == InitDb(db, fault = "open")
    IN /\ CanCall(fault)
       /\ fault \in {"none", "open", "req"}
       /\ db' = d
       /\ UNCHANGED <<now, pendingDel>>
       /\ IF d # "open"
          THEN /\ store' = store
               /\ Settle(Op("delete", key, "resolved"))
          ELSE IF fault = "req"
          THEN /\ store' = store
               /\ Settle(Op("delete", key, "rejected"))
          ELSE /\ store' = [store EXCEPT ![key] = NoEntry]
               /\ Settle([Op("delete", key, "resolved") EXCEPT
                            !.evicted = IF Present(store, key) THEN 1 ELSE 0])

\* async deleteInspection(inspectionId)
CacheDeleteInspection(inspectionId, fault) ==
    LET d == InitDb(db, fault = "open")
    IN /\ CanCall(fault)
       /\ fault \in {"none", "open", "req"}
       /\ db' = d
       /\ UNCHANGED <<now, pendingDel>>
       /\ IF d # "open"
          THEN /\ store' = store
               /\ Settle(Op("deleteInspection", inspectionId, "resolved"))
          ELSE IF fault = "req"
          THEN /\ store' = store
               /\ Settle(Op("deleteInspection", inspectionId, "rejected"))
          ELSE /\ store' = DeleteInspectionStore(store, inspectionId)
               /\ Settle([Op("deleteInspection", inspectionId, "resolved") EXCEPT
                            !.evicted =
                               Cardinality(PresentKeys(store)) -
                               Cardinality(PresentKeys(DeleteInspectionStore(store, inspectionId)))])

\* async clear()
CacheClear(fault) ==
    LET d == InitDb(db, fault = "open")
    IN /\ CanCall(fault)
       /\ fault \in {"none", "open", "req"}
       /\ db' = d
       /\ UNCHANGED <<now, pendingDel>>
       /\ IF d # "open"
          THEN /\ store' = store
               /\ Settle(Op("clear", NoKey, "resolved"))
          ELSE IF fault = "req"
          THEN /\ store' = store
               /\ Settle(Op("clear", NoKey, "rejected"))
          ELSE /\ store' = [k \in DOMAIN store |-> NoEntry]
               /\ Settle(Op("clear", NoKey, "resolved"))

\* async getStats()
CacheGetStats(fault) ==
    LET d == InitDb(db, fault = "open")
        stats == [count |-> Cardinality(PresentKeys(store)),
                  sizeBytes |-> getTotalSize(store)]
    IN /\ CanCall(fault)
       /\ fault \in {"none", "open", "req"}
       /\ db' = d
       /\ UNCHANGED <<store, now, pendingDel>>
       /\ IF d # "open"
          THEN Settle(Op("getStats", NoKey, "resolved"))
          ELSE IF fault = "req"
          THEN Settle(Op("getStats", NoKey, "rejected"))
          ELSE Settle([Op("getStats", NoKey, "resolved") EXCEPT !.stats = stats])

\* async batchGet(inspectionId, photoIds): a lookup that errors only counts
\* as completed, so the call resolves with the hits of the other lookups
CacheBatchGet(inspectionId, photoIds, errIds, fault) ==
    LET d == InitDb(db, fault = "open")
        failed == {n \in 1..Len(photoIds) : photoIds[n] \in errIds}
        called == [Op("batchGet", inspectionId, "resolved") EXCEPT
                     !.ids = {photoIds[n] : n \in 1..Len(photoIds)},
                     !.failed = errIds, !.resolves = 1]
    IN /\ CanCall(fault)
       /\ fault \in {"none", "open", "req"}
       /\ (fault = "req") = (errIds # {})
       /\ errIds \subseteq {photoIds[n] : n \in 1..Len(photoIds)}
       /\ db' = d
       /\ UNCHANGED <<store, now, pendingDel>>
       /\ IF d # "open"
          THEN Settle(called)
          ELSE \E order \in Perms(Len(photoIds)) :
                  LET settled == BatchGetSettled(store, inspectionId, photoIds, now,
                                                 failed, order)
                  IN Settle([called EXCEPT !.map = settled.map,
                                           !.resolves = settled.resolves])

\* time passes
Advance(t) ==
    /\ t > now
    /\ now' = t
    /\ UNCHANGED <<store, db, pendingDel, lastOp>>

CacheInit ==
    /\ store = [k \in AllKeys |-> NoEntry]
    /\ db = "unopened"
    /\ now = 0
    /\ pendingDel = NoKey
    /\ lastOp = NoOp

CacheStep(Faults) ==
    \/ \E ph \in Photos, u \in DataUrls, f \in Faults \cup {"none"} :
          CacheSet(ph[1], ph[2], u, f)
    \/ \E ph \in Photos, f \in Faults \cup {"none"} : CacheGet(ph[1], ph[2], f)
    \/ \E f \in Faults \cup {"none"} : DeferredDelete(f)
    \/ \E ph \in Photos, f \in Faults \cup {"none"} : CacheDelete(ph[1], ph[2], f)
    \/ \E i \in InspectionIds, f \in Faults \cup {"none"} : CacheDeleteInspection(i, f)
    \/ \E f \in Faults \cup {"none"} : CacheClear(f)
    \/ \E f \in Faults \cup {"none"} : CacheGetStats(f)
    \/ \E i \in InspectionIds, ids \in IdLists, errIds \in SUBSET PhotoIds,
          f \in Faults \cup {"none"} : CacheBatchGet(i, ids, errIds, f)
    \/ \E t \in Instants : Advance(t)

MediumFaults == {"open", "size", "clean", "put", "req"}

\* ------------------------------------------------------------------------
\* The remote store and batchFetchPhotoData
\* ------------------------------------------------------------------------
\* KEYS.photoData(inspectionId, photoId)
PhotoDataKey(inspectionId, photoId) ==
    <<"photo-data", ":">> \o inspectionId \o <<":">> \o photoId

RemoteKeys == {PhotoDataKey(ph[1], ph[2]) : ph \in Photos}

\* a Photo as far as the fetch looks at it
Photo(id, storage_key) == [id |-> id, storage_key |-> storage_key]
NoPhoto == Photo(<<>>, Null)
StoredUrls == {EmptyUrl, Url("z", 60)}

\* (variant: the rows found are returned as the query gave them, without nulls)
ServerMget_FoundOnly(table, keys) ==
    LET Found(k) == k \in DOMAIN table /\ table[k] # NoPhoto
        foundKeys == SelectSeq(keys, Found)
    IN [n \in 1..Len(foundKeys) |-> table[foundKeys[n]]]

\* POST /kv/mget: the values in the order of the requested keys, null for a
\* key the table does not hold
ServerMget(table, keys) ==
    [n \in 1..Len(keys) |-> IF keys[n] \in DOMAIN table THEN table[keys[n]] ELSE NoPhoto]

\* (variant: every requested id is fetched again, cached or not)
MissingPhotoIds_All(photoIds, cachedPhotos) == photoIds

\* step 2 of batchFetchPhotoData: photoIds.filter(id => !cachedPhotos.has(id))
MissingPhotoIds(photoIds, cachedPhotos) ==
    LET NotCached(id) == id \notin DOMAIN cachedPhotos
    IN SelectSeq(photoIds, NotCached)

\* kvStore.mget: no request for an empty key list, one POST /kv/mget otherwise
MgetRequests(keys) ==
    IF Len(keys) = 0 THEN <<>> ELSE <<[endpoint |-> "/kv/mget", keys |-> keys]>>

\* (variant: every photo the server returned is stored)
HasStorageKey_Any(photo) == photo # NoPhoto

\* `photo?.storage_key` and `if (photo)`: null and '' are falsy
HasStorageKey(photo) == photo # NoPhoto /\ photo.storage_key.len > 0

\* the index in missingPhotoIds whose id a server photo is attributed to
AttributedIndex(index) == index

\* step 5: photoMap from the cache hits, then from the server photos by the
\* position of their id in missingPhotoIds; then photoIds.map(get).filter(Boolean)
PhotoMap(cachedPhotos, missingPhotoIds, serverPhotos) ==
    LET serverIdx == {n \in 1..Len(serverPhotos) : serverPhotos[n] # NoPhoto}
        serverIds == {missingPhotoIds[AttributedIndex(n)] : n \in serverIdx}
        \* Map.set keeps the last value set for an id
        LastIdx(id) == CHOOSE n \in serverIdx :
                          /\ missingPhotoIds[AttributedIndex(n)] = id
                          /\ \A m \in serverIdx :
                               missingPhotoIds[AttributedIndex(m)] = id => m <= n
    IN [id \in DOMAIN cachedPhotos \cup serverIds |->
          IF id \in serverIds THEN serverPhotos[LastIdx(id)]
          ELSE Photo(id, cachedPhotos[id])]

CombineResult(photoIds, photoMap) ==
    LET InMap(id) == id \in DOMAIN photoMap
        found == SelectSeq(photoIds, InMap)
    IN [n \in 1..Len(found) |-> photoMap[found[n]]]

\* (variant: nothing is counted as loaded before the server has answered)
FirstProgress_Zero(cachedPhotos, photoIds) == <<0, Len(photoIds)>>

\* onProgress?.(cachedCount, photoIds.length), cachedCount = cachedPhotos.size
FirstProgress(cachedPhotos, photoIds) ==
    <<Cardinality(DOMAIN cachedPhotos), Len(photoIds)>>

\* the return of the all-cached path
AllCachedResult(photoIds, cachedPhotos) ==
    [n \in 1..Len(photoIds) |-> Photo(photoIds[n], cachedPhotos[photoIds[n]])]

\* step 4: Promise.all over photoCache.set of every server photo with a
\* storage_key.  Every set has read getTotalSize before any of them writes
\* (the getAll transactions are queued first); then, in index order, a set
\* that needs room queues its cleanOldest and the others their put; the puts
\* of the sets that cleaned are queued after those.  `faults[n]` is the fault
\* met by the set of index n.
StoreItems(inspectionId, missingPhotoIds, serverPhotos) ==
    LET idx == {n \in 1..Len(serverPhotos) : HasStorageKey(serverPhotos[n])}
    IN [n \in idx |-> [key |-> CacheKey(inspectionId, missingPhotoIds[n]),
                       dataUrl |-> serverPhotos[n].storage_key]]

RECURSIVE PhaseClean(_, _, _, _, _)
PhaseClean(s, items, faults, currentSize, n) ==
    \* first transaction of the set of index n, n ascending
    IF n > Len(faults) THEN s
    ELSE IF n \notin DOMAIN items \/ faults[n] \in {"size", "clean"}
    THEN PhaseClean(s, items, faults, currentSize, n + 1)
    ELSE LET sizeBytes == SizeOf(items[n].dataUrl)
             ord == CHOOSE o \in TimestampOrders(s) : TRUE
         IN IF NeedsCleaning(currentSize, sizeBytes)
            THEN PhaseClean(cleanOldest(s, ord, sizeBytes), items, faults, currentSize, n + 1)
            ELSE IF faults[n] = "put"
            THEN PhaseClean(s, items, faults, currentSize, n + 1)
            ELSE PhaseClean((items[n].key :> CachedPhoto(items[n].dataUrl, now)) @@ s,
                            items, faults, currentSize, n + 1)

RECURSIVE PhasePut(_, _, _, _, _)
PhasePut(s, items, faults, currentSize, n) ==
    \* the put of the sets that had to clean first
    IF n > Len(faults) THEN s
    ELSE IF /\ n \in DOMAIN items
            /\ faults[n] = "none"
            /\ NeedsCleaning(currentSize, SizeOf(items[n].dataUrl))
    THEN PhasePut((items[n].key :> CachedPhoto(items[n].dataUrl, now)) @@ s,
                  items, faults, currentSize, n + 1)
    ELSE PhasePut(s, items, faults, currentSize, n + 1)

ParallelSets(s, items, faults) ==
    LET currentSize == getTotalSize(s)
    IN PhasePut(PhaseClean(s, items, faults, currentSize, 1), items, faults, currentSize, 1)

SetFaults == {"none", "size", "clean", "put"}

IdleFetch ==
    [pc |-> "idle", inspectionId |-> <<>>, photoIds |-> <<>>,
     cachedPhotos |-> EmptyMap, missingPhotoIds |-> <<>>,
     net |-> <<>>,            \* the requests sent to the server by this call
     serverPhotos |-> <<>>,
     progress |-> <<>>,       \* the calls of onProgress: <<loaded, total>>
     writeFailed |-> FALSE,   \* a photoCache.set of step 4 met a fault
     remoteFailed |-> FALSE,  \* kvStore.mget threw
     outcome |-> "none",      \* "returned" | "threw"
     result |-> <<>>]

FetchIdle ==
    /\ remote = [k \in RemoteKeys |-> NoPhoto]
    /\ fetch = IdleFetch

\* batchFetchPhotoData up to the request it sends: the cache lookup, the
\* first progress report, the missing ids and POST /kv/mget
FetchStart(inspectionId, photoIds, errIds, fault) ==
    LET d == InitDb(db, fault = "open")
        cachedPhotos == IF d = "open"
                        THEN BatchGetMap(store, inspectionId, photoIds, now, errIds)
                        ELSE EmptyMap
        missing == MissingPhotoIds(photoIds, cachedPhotos)
        keys == [n \in 1..Len(missing) |-> PhotoDataKey(inspectionId, missing[n])]
        started == [IdleFetch EXCEPT !.inspectionId = inspectionId, !.photoIds = photoIds]
    IN /\ fetch.pc = "idle"
       /\ CanCall(fault)
       /\ fault \in {"none", "open", "req"}
       /\ (fault = "req") = (errIds # {})
       /\ errIds \subseteq {photoIds[n] : n \in 1..Len(photoIds)}
       /\ db' = (IF Len(photoIds) = 0 THEN db ELSE d)
       /\ UNCHANGED <<store, now, pendingDel, lastOp, remote>>
       /\ IF Len(photoIds) = 0
          THEN fetch' = [started EXCEPT !.pc = "done", !.outcome = "returned"]
          ELSE IF Len(missing) = 0
          THEN fetch' = [started EXCEPT
                           !.pc = "done", !.outcome = "returned",
                           !.cachedPhotos = cachedPhotos,
                           !.progress = <<FirstProgress(cachedPhotos, photoIds)>>,
                           !.result = AllCachedResult(photoIds, cachedPhotos)]
          ELSE fetch' = [started EXCEPT
                           !.pc = "mget",
                           !.cachedPhotos = cachedPhotos,
                           !.progress = <<FirstProgress(cachedPhotos, photoIds)>>,
                           !.missingPhotoIds = missing,
                           !.net = MgetRequests(keys)]

\* the reply of POST /kv/mget; a failed request makes apiCall throw
FetchReply(ok) ==
    /\ fetch.pc = "mget"
    /\ UNCHANGED <<cacheVars, remote>>
    /\ IF ok
       THEN fetch' = [fetch EXCEPT !.pc = "store",
                                   !.serverPhotos = ServerMget(remote, fetch.net[1].keys)]
       ELSE fetch' = [fetch EXCEPT !.pc = "done", !.outcome = "threw",
                                   !.remoteFailed = TRUE]

\* steps 4 to 6: the cache writes, the last progress report, the merge
FetchStore(faults) ==
    LET items == StoreItems(fetch.inspectionId, fetch.missingPhotoIds, fetch.serverPhotos)
        currentSize == getTotalSize(store)
        photoMap == PhotoMap(fetch.cachedPhotos, fetch.missingPhotoIds, fetch.serverPhotos)
    IN /\ fetch.pc = "store"
       /\ pendingDel = NoKey
       /\ faults \in [1..Len(fetch.serverPhotos) -> SetFaults]
       /\ \A n \in 1..Len(faults) :
            /\ (n \notin DOMAIN items \/ db # "open") => faults[n] = "none"
            /\ (faults[n] = "clean") =>
                  NeedsCleaning(currentSize, SizeOf(items[n].dataUrl))
       /\ store' = (IF db = "open" THEN ParallelSets(store, items, faults) ELSE store)
       /\ UNCHANGED <<db, now, pendingDel, lastOp, remote>>
       /\ IF \E n \in 1..Len(faults) : faults[n] = "put"
          THEN \* a rejected photoCache.set rejects Promise.all
               fetch' = [fetch EXCEPT !.pc = "done", !.outcome = "threw",
                                      !.writeFailed = TRUE]
          ELSE fetch' = [fetch EXCEPT
                           !.pc = "done", !.outcome = "returned",
                           !.writeFailed = (\E n \in 1..Len(faults) : faults[n] # "none"),
                           !.progress = Append(fetch.progress,
                                               <<Len(fetch.photoIds), Len(fetch.photoIds)>>),
                           !.result = CombineResult(fetch.photoIds, photoMap)]

\* the caller has taken the result
FetchDone ==
    /\ fetch.pc = "done"
    /\ fetch' = IdleFetch
    /\ UNCHANGED <<cacheVars, remote>>

\* POST /kv/set and POST /kv/delete of a photo-data key, by any client
RemoteSet(inspectionId, photoId, storage_key) ==
    /\ remote' = [remote EXCEPT ![PhotoDataKey(inspectionId, photoId)] =
                                    Photo(photoId, storage_key)]
    /\ UNCHANGED <<cacheVars, fetch>>

RemoteDelete(inspectionId, photoId) ==
    /\ remote[PhotoDataKey(inspectionId, photoId)] # NoPhoto
    /\ remote' = [remote EXCEPT ![PhotoDataKey(inspectionId, photoId)] = NoPhoto]
    /\ UNCHANGED <<cacheVars, fetch>>

FetchStep ==
    \/ \E i \in InspectionIds, ids \in IdLists, errIds \in SUBSET PhotoIds,
          f \in {"none", "open", "req"} : FetchStart(i, ids, errIds, f)
    \/ \E ok \in BOOLEAN : FetchReply(ok)
    \/ \E faults \in UNION {[1..n -> SetFaults] : n \in 0..MaxBatch} : FetchStore(faults)
    \/ FetchDone
    \/ \E ph \in Photos, u \in StoredUrls : RemoteSet(ph[1], ph[2], u)
    \/ \E ph \in Photos : RemoteDelete(ph[1], ph[2])
    \/ \E t \in {TtlMs + MaxClockSlack} : Advance(t) /\ UNCHANGED fetchVars

\* ------------------------------------------------------------------------
\* The inspection edit page: debounced text edits
\* ------------------------------------------------------------------------
TickMs == 100            \* granularity of the page clock
EditingFlagMs == 100     \* delay of the timer that drops the editing flag
MaxTime == 1200
MaxEdits == 3

ItemIds == {<<"i", "1">>}
Fields == {"answer_text", "notes"}
TextValues == {"p", "q"}
NoText == "undefined"
NoTimer == 0

\* (variant: one timer per item, whatever the field)
FieldKey_ItemOnly(itemId, field) == itemId

\* `${itemId}-${field}`
FieldKey(itemId, field) == itemId \o <<"-">> \o <<field>>
FieldKeys == {FieldKey(i, f) : i \in ItemIds, f \in Fields}

VARIABLES
    clock,             \* time of the page, ms
    timers,            \* the timers setTimeout has started and not yet run
    debounceTimers,    \* debounceTimers.current: fieldKey -> timer id
    nextTimer,         \* the id the next setTimeout returns
    isEditingField,    \* isEditingField.current
    localItems,        \* localItems: itemId -> field -> text
    hasUnsavedChanges,
    itemUpdates,       \* the calls of handleItemUpdate, in order
    edits              \* the calls of handleTextUpdate per fieldKey, in order

debVars == <<clock, timers, debounceTimers, nextTimer, isEditingField,
             localItems, hasUnsavedChanges, itemUpdates, edits>>

DebounceInit ==
    /\ clock = 0
    /\ timers = {}
    /\ debounceTimers = [k \in FieldKeys |-> NoTimer]
    /\ nextTimer = 1
    /\ isEditingField = {}
    /\ localItems = [i \in ItemIds |-> [f \in Fields |-> NoText]]
    /\ hasUnsavedChanges = FALSE
    /\ itemUpdates = <<>>
    /\ edits = [k \in FieldKeys |-> <<>>]

\* (variant: the timer of the previous edit is left running)
ClearTimeout_Keep(ts, id) == ts

\* clearTimeout(id), guarded by `if (debounceTimers.current[fieldKey])`
ClearTimeout(ts, id) == {t \in ts : t.id # id}

\* setTimeout(callback, delay)
Timer(id, kind, itemId, field, value, due) ==
    [id |-> id, kind |-> kind, itemId |-> itemId, field |-> field,
     value |-> value, due |-> due]

RECURSIVE SumLen(_, _)
SumLen(f, S) ==
    IF S = {} THEN 0
    ELSE LET k == CHOOSE x \in S : TRUE IN Len(f[k]) + SumLen(f, S \ {k})

\* a timer that is due runs before any later event of the page
NoneDue == \A t \in timers : t.due > clock

handleTextUpdate(itemId, field, value) ==
    LET fieldKey == FieldKey(itemId, field)
    IN /\ SumLen(edits, FieldKeys) < MaxEdits
       /\ NoneDue
       /\ isEditingField' = isEditingField \cup {fieldKey}
       /\ localItems' = [localItems EXCEPT ![itemId][field] = value]
       /\ hasUnsavedChanges' = TRUE
       /\ timers' = ClearTimeout(timers, debounceTimers[fieldKey])
                       \cup {Timer(nextTimer, "write", itemId, field, value,
                                   clock + DEBOUNCE_MS)}
       /\ debounceTimers' = [debounceTimers EXCEPT ![fieldKey] = nextTimer]
       /\ nextTimer' = nextTimer + 1
       /\ edits' = [edits EXCEPT ![fieldKey] = Append(@, [value |-> value, at |-> clock])]
       /\ UNCHANGED <<clock, itemUpdates>>

\* the callback of the debounce timer: handleItemUpdate(itemId, {[field]: value})
WriteTimerFires(t) ==
    /\ t \in timers
    /\ t.kind = "write"
    /\ t.due <= clock
    /\ itemUpdates' = Append(itemUpdates,
                             [id |-> t.itemId, field |-> t.field,
                              value |-> t.value, at |-> clock])
    /\ debounceTimers' = [debounceTimers EXCEPT ![FieldKey(t.itemId, t.field)] = NoTimer]
    /\ timers' = (timers \ {t})
                    \cup {Timer(nextTimer, "flag", t.itemId, t.field, t.value,
                                clock + EditingFlagMs)}
    /\ nextTimer' = nextTimer + 1
    /\ UNCHANGED <<clock, isEditingField, localItems, hasUnsavedChanges, edits>>

\* the callback of the inner timer: isEditingField.current.delete(fieldKey)
FlagTimerFires(t) ==
    /\ t \in timers
    /\ t.kind = "flag"
    /\ t.due <= clock
    /\ isEditingField' = isEditingField \ {FieldKey(t.itemId, t.field)}
    /\ timers' = timers \ {t}
    /\ UNCHANGED <<clock, debounceTimers, nextTimer, localItems, hasUnsavedChanges,
                   itemUpdates, edits>>

\* time passes, up to the next instant at which a timer is due
Tick ==
    LET dues == {t.due : t \in timers} \cap (clock..(clock + TickMs))
        next == IF dues = {} THEN clock + TickMs
                ELSE CHOOSE d \in dues : \A e \in dues : d <= e
    IN /\ next <= MaxTime
       /\ next > clock
       /\ clock' = next
       /\ UNCHANGED <<timers, debounceTimers, nextTimer, isEditingField, localItems,
                      hasUnsavedChanges, itemUpdates, edits>>

DebounceStep ==
    \/ \E i \in ItemIds, f \in Fields, v \in TextValues : handleTextUpdate(i, f, v)
    \/ \E t \in timers : WriteTimerFires(t)
    \/ \E t \in timers : FlagTimerFires(t)
    \/ Tick

\* ------------------------------------------------------------------------
\* The query cache and the optimistic mutations
\* ------------------------------------------------------------------------
MaxMutations == 2        \* mutations started in a run
MaxPending == 2          \* mutations pending at a time

\* the data of a query: undefined, or a value
Undefined == [defined |-> FALSE, value |-> <<>>]
Data(v) == [defined |-> TRUE, value |-> v]
NoInspections == [i \in InspectionIds |-> Undefined]
NoCaption == "null"
Mutations == 1..MaxPending

\* a Photo of the photo index (metadata), an InspectionItem
PhotoMeta(id, caption) == [id |-> id, caption |-> caption]
Item(id, answer_text, notes) == [id |-> id, answer_text |-> answer_text, notes |-> notes]
QueryItemIds == {<<"i", "1">>, <<"i", "2">>}

\* what the query function of useInspection resolves
LoadedInspection(inspectionId) ==
    \* the inspection, as far as the mutations look at it: its items
    <<Item(<<"i">> \o (IF inspectionId = <<"a">> THEN <<"1">> ELSE <<"2">>), "p", "p")>>

\* the inspection whose photos are mutated, and the payload of an upload
Inspection == <<"a">>
UploadedUrl == Url("x", 40)

\* KEYS.photoIndex(inspectionId)
PhotoIndexKey(inspectionId) == <<"photo-index", ":">> \o inspectionId

VARIABLES
    photosQuery,       \* data of the query ['inspection-photos', 'a']
    inspectionQuery,   \* data of the queries ['inspection', id]
    photosFetch,       \* the fetch of the query ['inspection-photos', 'a']
    inspectionFetch,   \* the fetches of the queries ['inspection', id]
    photoIndex,        \* the value of the key photo-index:a in the table
    mutation,          \* the mutations: position, variables, context, requests
    uuid,              \* the ids crypto.randomUUID() has given out
    started            \* the mutations started so far

mutVars == <<photosQuery, inspectionQuery, photosFetch, inspectionFetch, photoIndex,
             mutation, uuid, started>>

\* a request to the server that has not been answered
Req(op, key, index, photo) == [op |-> op, key |-> key, index |-> index, photo |-> photo]

NoVariables == [id |-> <<>>, caption |-> NoCaption, count |-> 0,
                field |-> "none", value |-> NoText,
                serverIds |-> <<>>]      \* the ids mutationFn gives the photos
NoContext == [previousPhotos |-> Undefined, previousInspections |-> NoInspections,
              optimisticPhotoIds |-> <<>>]
IdleMutation ==
    [pc |-> "idle", kind |-> "none", variables |-> NoVariables, context |-> NoContext,
     phase |-> "none",            \* of mutationFn: "file" | "read" | "readData" | "write"
     existingIndex |-> <<>>,      \* the index mutationFn has read
     requests |-> {},             \* its requests the server has not answered
     serial |-> 0,                \* the mutation is the serial-th started
     \* the queries when the mutation started; whether it ran alone so far;
     \* the mutations pending together with it; whether its start cancelled a fetch
     before |-> [photos |-> Undefined, inspections |-> NoInspections],
     alone |-> TRUE,
     peers |-> {},
     cancelled |-> FALSE,
     loaded |-> FALSE]        \* the query held data when the mutation started

\* a fetch of a query: idle or in flight
IdleQueryFetch == [pc |-> "idle",
                   overtaken |-> {}]   \* the mutations begun while it was in flight

MutInit ==
    /\ photosQuery = Undefined
    /\ inspectionQuery = NoInspections
    /\ photosFetch = IdleQueryFetch
    /\ inspectionFetch = [i \in InspectionIds |-> IdleQueryFetch]
    /\ photoIndex = <<>>
    /\ mutation = [m \in Mutations |-> IdleMutation]
    /\ uuid = 0
    /\ started = 0

\* crypto.randomUUID(), the n-th id after those given out
RandomUUID(n) ==
    LET k == uuid + n
    IN <<"u", Digits[(k \div 10) + 1], Digits[(k % 10) + 1]>>

\* `old || []`
OrEmpty(old) == IF old.defined THEN old.value ELSE <<>>

\* a value is truthy unless undefined; an array is truthy even when empty
Truthy(v) == v.defined

\* queryClient.setQueryData(key, data): data undefined leaves the query as is
SetQueryData(current, data) == IF data.defined THEN data ELSE current

\* the optimistic transforms of the onMutate callbacks
OptimisticUpload(old, newPhotos) == Data(OrEmpty(old) \o newPhotos)

OptimisticDelete(old, id) ==
    LET Other(p) == p.id # id
    IN Data(SelectSeq(OrEmpty(old), Other))

\* (variant: the caption is shown when the server has confirmed it)
OptimisticCaption_Later(old, id, caption) == Data(OrEmpty(old))

OptimisticCaption(old, id, caption) ==
    LET photos == OrEmpty(old)
    IN Data([n \in 1..Len(photos) |->
               IF photos[n].id = id THEN [photos[n] EXCEPT !.caption = caption]
               ELSE photos[n]])

OptimisticItem(old, id, field, value) ==
    IF ~old.defined THEN old             \* if (!old?.items) return old
    ELSE Data([n \in 1..Len(old.value) |->
                 IF old.value[n].id = id
                 THEN [old.value[n] EXCEPT ![field] = value]
                 ELSE old.value[n]])

\* onError of the photo mutations: if (context?.previousPhotos) setQueryData(...)
RollbackPhotos(current, previousPhotos) ==
    IF Truthy(previousPhotos) THEN SetQueryData(current, previousPhotos) ELSE current

\* onError of the item mutation: previousInspections.forEach(setQueryData)
RollbackInspections(current, previousInspections) ==
    [i \in InspectionIds |-> SetQueryData(current[i], previousInspections[i])]

\* onSuccess of the upload: the optimistic photo becomes the server's
ConfirmUpload(old, optimisticPhotoId, data) ==
    LET photos == OrEmpty(old)
    IN Data([n \in 1..Len(photos) |->
               IF photos[n].id = optimisticPhotoId THEN data ELSE photos[n]])

\* onSuccess of the batch upload: the optimistic photos go, the server's are appended
ConfirmBatch(old, optimisticPhotoIds, data) ==
    LET optimisticIds == {optimisticPhotoIds[n] : n \in 1..Len(optimisticPhotoIds)}
        NonOptimistic(p) == p.id \notin optimisticIds
    IN Data(SelectSeq(OrEmpty(old), NonOptimistic) \o data)

Pending(m) == mutation[m].pc = "pending"

IndexIds(index) == {index[n].id : n \in 1..Len(index)}
HasData(table, key) == key \in DOMAIN table /\ table[key] # NoPhoto

\* (variant: onMutate leaves the fetch in flight alone)
CancelQueries_Keep(f) == f

\* queryClient.cancelQueries: the result of a fetch in flight is never written
CancelQueries(f) == IF f.pc = "inflight" THEN IdleQueryFetch ELSE f

\* a fetch still in flight when the mutation of this serial number begins
Overtaken(f, serial) ==
    IF f.pc = "inflight" THEN [f EXCEPT !.overtaken = @ \cup {serial}] ELSE f

\* the query function of useInspectionPhotos sends GET photo-index:a
PhotosFetchStarts ==
    /\ photosFetch.pc = "idle"
    /\ photosFetch' = [IdleQueryFetch EXCEPT !.pc = "inflight"]
    /\ UNCHANGED <<photosQuery, inspectionQuery, inspectionFetch, photoIndex, mutation,
                   uuid, started, store, db, remote>>

\* the server answers it with the index it holds, and the result is written
\* into the query; the index is stored in order_index order, which the sort
\* of the result keeps
PhotosFetchLands ==
    /\ photosFetch.pc = "inflight"
    /\ photosQuery' = Data(photoIndex)
    /\ photosFetch' = IdleQueryFetch
    /\ mutation' = [m \in Mutations |->
                      IF Pending(m) THEN [mutation[m] EXCEPT !.alone = FALSE]
                      ELSE mutation[m]]
    /\ UNCHANGED <<inspectionQuery, inspectionFetch, photoIndex, uuid, started,
                   store, db, remote>>

\* the same for the query function of useInspection
InspectionFetchStarts(inspectionId) ==
    /\ inspectionFetch[inspectionId].pc = "idle"
    /\ inspectionFetch' = [inspectionFetch EXCEPT ![inspectionId] =
          [IdleQueryFetch EXCEPT !.pc = "inflight"]]
    /\ UNCHANGED <<photosQuery, inspectionQuery, photosFetch, photoIndex, mutation,
                   uuid, started, store, db, remote>>

InspectionFetchLands(inspectionId) ==
    /\ inspectionFetch[inspectionId].pc = "inflight"
    /\ inspectionQuery' = [inspectionQuery EXCEPT
                              ![inspectionId] = Data(LoadedInspection(inspectionId))]
    /\ inspectionFetch' = [inspectionFetch EXCEPT ![inspectionId] = IdleQueryFetch]
    /\ mutation' = [m \in Mutations |->
                      IF Pending(m) THEN [mutation[m] EXCEPT !.alone = FALSE]
                      ELSE mutation[m]]
    /\ UNCHANGED <<photosQuery, photosFetch, photoIndex, uuid, started, store, db, remote>>

\* another client has uploaded photo p of the inspection, before this client
\* starts its mutations; the photos are uploaded in the order of their ids
OtherClientUpload(p) ==
    /\ started = 0
    /\ p = <<Digits[Len(photoIndex) + 2]>>
    /\ photoIndex' = Append(photoIndex, PhotoMeta(p, NoCaption))
    /\ remote' = [remote EXCEPT ![PhotoDataKey(Inspection, p)] = Photo(p, Url("z", 60))]
    /\ UNCHANGED <<photosQuery, inspectionQuery, photosFetch, inspectionFetch, mutation,
                   uuid, started, store, db>>

\* the first request of mutationFn
FirstRequest(kind) ==
    IF kind = "item"
    THEN Req("get-by-prefix", <<"inspection", ":">>, <<>>, NoPhoto)
    ELSE Req("get", PhotoIndexKey(Inspection), <<>>, NoPhoto)

\* mutate(): the onMutate callback of the hook runs (cancelQueries, snapshot,
\* optimistic update), then mutationFn starts: it sends its first request,
\* unless it has a file to read first (phase "file")
Begin(m, kind, variables, context, photos, inspections, ids, phase) ==
    LET serial == started + 1
        others == {o \in Mutations \ {m} : Pending(o)}
    IN /\ ~Pending(m)
       /\ mutation[m].requests = {}
       /\ \A n \in Mutations : n < m => Pending(n)
       /\ started < MaxMutations
       /\ started' = serial
       /\ uuid' = uuid + ids
       /\ photosQuery' = photos
       /\ inspectionQuery' = inspections
       /\ photosFetch' = (IF kind = "item" THEN photosFetch
                          ELSE Overtaken(CancelQueries(photosFetch), serial))
       /\ inspectionFetch' =
             (IF kind = "item"
              THEN [i \in InspectionIds |-> Overtaken(CancelQueries(inspectionFetch[i]), serial)]
              ELSE inspectionFetch)
       /\ mutation' = [n \in Mutations |->
             IF n = m
             THEN [pc |-> "pending", kind |-> kind, variables |-> variables,
                   context |-> context,
                   phase |-> phase,
                   existingIndex |-> <<>>,
                   requests |-> IF phase = "file" THEN {} ELSE {FirstRequest(kind)},
                   serial |-> serial,
                   before |-> [photos |-> photosQuery, inspections |-> inspectionQuery],
                   alone |-> others = {},
                   peers |-> {mutation[o].serial : o \in others},
                   cancelled |-> IF kind = "item"
                                 THEN \E i \in InspectionIds : inspectionFetch[i].pc = "inflight"
                                 ELSE photosFetch.pc = "inflight",
                   loaded |-> IF kind = "item"
                              THEN \E i \in InspectionIds : inspectionQuery[i].defined
                              ELSE photosQuery.defined]
             ELSE IF Pending(n)
             THEN [mutation[n] EXCEPT !.alone = FALSE, !.peers = @ \cup {serial}]
             ELSE mutation[n]]
       /\ UNCHANGED <<photoIndex, store, db, remote>>

\* useUploadPhoto: onMutate, and the id mutationFn gives the photo; without
\* a dataUrl mutationFn reads the file before anything else
UploadPhoto(m, caption, fromFile) ==
    LET newPhoto == PhotoMeta(RandomUUID(1), caption)
    IN Begin(m, "upload",
             [NoVariables EXCEPT !.caption = caption, !.serverIds = <<RandomUUID(2)>>],
             [NoContext EXCEPT !.previousPhotos = photosQuery,
                               !.optimisticPhotoIds = <<newPhoto.id>>],
             OptimisticUpload(photosQuery, <<newPhoto>>), inspectionQuery, 2,
             IF fromFile THEN "file" ELSE "read")

\* useBatchUploadPhotos: onMutate, and the ids mutationFn gives the photos
BatchUploadPhotos(m, count) ==
    LET newPhotos == [n \in 1..count |-> PhotoMeta(RandomUUID(n), NoCaption)]
    IN Begin(m, "batch",
             [NoVariables EXCEPT !.count = count,
                                 !.serverIds = [n \in 1..count |-> RandomUUID(count + n)]],
             [NoContext EXCEPT !.previousPhotos = photosQuery,
                               !.optimisticPhotoIds = [n \in 1..count |-> newPhotos[n].id]],
             OptimisticUpload(photosQuery, newPhotos), inspectionQuery, 2 * count, "read")

\* useDeletePhoto.onMutate
DeletePhoto(m, id) ==
    Begin(m, "delete", [NoVariables EXCEPT !.id = id],
          [NoContext EXCEPT !.previousPhotos = photosQuery],
          OptimisticDelete(photosQuery, id), inspectionQuery, 0, "read")

\* useUpdatePhotoCaption.onMutate
UpdatePhotoCaption(m, id, caption) ==
    Begin(m, "caption", [NoVariables EXCEPT !.id = id, !.caption = caption],
          [NoContext EXCEPT !.previousPhotos = photosQuery],
          OptimisticCaption(photosQuery, id, caption), inspectionQuery, 0, "read")

\* useUpdateInspectionItem.onMutate: every ['inspection', *] query is patched
UpdateInspectionItem(m, id, field, value) ==
    Begin(m, "item", [NoVariables EXCEPT !.id = id, !.field = field, !.value = value],
          [NoContext EXCEPT !.previousInspections = inspectionQuery],
          photosQuery,
          [i \in InspectionIds |-> OptimisticItem(inspectionQuery[i], id, field, value)],
          0, "item")

\* the onError callback of the hook: the snapshot is written back
MutationFails(m) ==
    LET c == mutation[m].context
    IN /\ photosQuery' = (IF mutation[m].kind = "item" THEN photosQuery
                          ELSE RollbackPhotos(photosQuery, c.previousPhotos))
       /\ inspectionQuery' = (IF mutation[m].kind = "item"
                              THEN RollbackInspections(inspectionQuery, c.previousInspections)
                              ELSE inspectionQuery)

\* the metadata mutationFn of an upload resolves
ServerMetadata(m) ==
    LET v == mutation[m].variables
    IN [n \in 1..Len(v.serverIds) |-> PhotoMeta(v.serverIds[n], v.caption)]

\* the onSuccess callback of the hook, where it has one
MutationSucceeds(m) ==
    LET c == mutation[m].context
        kind == mutation[m].kind
    IN /\ photosQuery' =
             (IF kind = "upload"
              THEN ConfirmUpload(photosQuery, c.optimisticPhotoIds[1], ServerMetadata(m)[1])
              ELSE IF kind = "batch"
              THEN ConfirmBatch(photosQuery, c.optimisticPhotoIds, ServerMetadata(m))
              ELSE photosQuery)
       /\ UNCHANGED inspectionQuery

\* existingIndex.filter(p => p.id !== photo.id)
WithoutPhoto(index, id) ==
    LET Other(p) == p.id # id
    IN SelectSeq(index, Other)

\* existingIndex.map(p => p.id === id ? { ...p, caption } : p)
WithCaption(index, id, caption) ==
    [n \in 1..Len(index) |->
        IF index[n].id = id THEN [index[n] EXCEPT !.caption = caption] ELSE index[n]]

\* the remote requests inside the Promise.all of mutationFn, sent together
Writes(m, existingIndex, photoData) ==
    LET v == mutation[m].variables
        kind == mutation[m].kind
        indexKey == PhotoIndexKey(Inspection)
    IN IF kind \in {"upload", "batch"}
       THEN {Req("set", indexKey, existingIndex \o ServerMetadata(m), NoPhoto)}
            \cup {Req("set", PhotoDataKey(Inspection, v.serverIds[n]), <<>>,
                      Photo(v.serverIds[n], UploadedUrl)) : n \in 1..Len(v.serverIds)}
       ELSE IF kind = "delete"
       THEN {Req("set", indexKey, WithoutPhoto(existingIndex, v.id), NoPhoto),
             Req("delete", PhotoDataKey(Inspection, v.id), <<>>, NoPhoto)}
       ELSE {Req("set", indexKey, WithCaption(existingIndex, v.id, v.caption), NoPhoto),
             Req("set", PhotoDataKey(Inspection, v.id), <<>>, photoData)}

\* the photoCache call inside the same Promise.all
CacheWrites(m) ==
    LET v == mutation[m].variables
        kind == mutation[m].kind
        items == [n \in 1..Len(v.serverIds) |->
                    [key |-> CacheKey(Inspection, v.serverIds[n]), dataUrl |-> UploadedUrl]]
    IN IF kind \in {"upload", "batch"}
       THEN ParallelSets(store, items, [n \in 1..Len(items) |-> "none"])
       ELSE IF kind = "delete"
       THEN [store EXCEPT ![CacheKey(Inspection, v.id)] = NoEntry]
       ELSE store

\* mutationFn sends the requests of its Promise.all
SendWrites(m, existingIndex, photoData) ==
    /\ mutation' = [mutation EXCEPT ![m].phase = "write",
                                    ![m].existingIndex = existingIndex,
                                    ![m].requests = Writes(m, existingIndex, photoData)]
    /\ store' = CacheWrites(m)
    /\ db' = (IF mutation[m].kind = "caption" THEN db ELSE InitDb(db, FALSE))
    /\ UNCHANGED <<photosQuery, inspectionQuery>>

\* a mutation that has settled: its callbacks have run, and what is left of
\* it are the requests not yet answered
SettledMutation(m, pc, left) ==
    [IdleMutation EXCEPT !.pc = pc, !.kind = mutation[m].kind,
                         !.variables = mutation[m].variables,
                         !.context.optimisticPhotoIds = mutation[m].context.optimisticPhotoIds,
                         !.phase = mutation[m].phase,
                         !.requests = left,
                         !.serial = mutation[m].serial,
                         !.peers = mutation[m].peers,
                         !.loaded = mutation[m].loaded]

\* a request of mutationFn threw: the promise rejects, onError runs
Rejected(m, left) ==
    /\ mutation' = [mutation EXCEPT ![m] = SettledMutation(m, "failed", left)]
    /\ MutationFails(m)
    /\ UNCHANGED <<store, db>>

\* the FileReader of useUploadPhoto has loaded the file, and mutationFn sends
\* its first request; reader.onerror rejects mutationFn
FileRead(m, ok) ==
    /\ Pending(m)
    /\ mutation[m].phase = "file"
    /\ IF ok
       THEN /\ mutation' = [mutation EXCEPT ![m].phase = "read",
                                            ![m].requests = {FirstRequest(mutation[m].kind)}]
            /\ UNCHANGED <<photosQuery, inspectionQuery, store, db>>
       ELSE Rejected(m, {})
    /\ UNCHANGED <<photosFetch, inspectionFetch, photoIndex, uuid, started, remote>>

\* GET photo-index:a is answered
IndexRead(m, ok) ==
    /\ Pending(m)
    /\ mutation[m].phase = "read"
    /\ IF ~ok
       THEN Rejected(m, {})
       ELSE IF mutation[m].kind = "caption"
       THEN /\ mutation' = [mutation EXCEPT
                  ![m].phase = "readData",
                  ![m].existingIndex = photoIndex,
                  ![m].requests = {Req("get", PhotoDataKey(Inspection, mutation[m].variables.id),
                                       <<>>, NoPhoto)}]
            /\ UNCHANGED <<photosQuery, inspectionQuery, store, db>>
       ELSE SendWrites(m, photoIndex, NoPhoto)
    /\ UNCHANGED <<photosFetch, inspectionFetch, photoIndex, uuid, started, remote>>

\* GET photo-data:a:id of useUpdatePhotoCaption is answered; no photo data
\* throws 'Photo not found'
DataRead(m, ok) ==
    LET key == PhotoDataKey(Inspection, mutation[m].variables.id)
    IN /\ Pending(m)
       /\ mutation[m].phase = "readData"
       /\ IF ok /\ HasData(remote, key)
          THEN SendWrites(m, mutation[m].existingIndex, remote[key])
          ELSE Rejected(m, {})
       /\ UNCHANGED <<photosFetch, inspectionFetch, photoIndex, uuid, started, remote>>

\* POST /kv/set and /kv/delete as the server applies them
ServerApply(table, req) ==
    IF req.key = PhotoIndexKey(Inspection) THEN table
    ELSE (req.key :> (IF req.op = "delete" THEN NoPhoto ELSE req.photo)) @@ table

\* a request of the Promise.all is answered: the server has applied it unless
\* it failed; the first failure rejects mutationFn while the other requests
\* stay under way, the last success resolves it
WriteAnswered(m, req, ok) ==
    LET left == mutation[m].requests \ {req}
    IN /\ mutation[m].phase = "write"
       /\ req \in mutation[m].requests
       /\ remote' = (IF ok THEN ServerApply(remote, req) ELSE remote)
       /\ photoIndex' = (IF ok /\ req.key = PhotoIndexKey(Inspection)
                         THEN req.index ELSE photoIndex)
       /\ IF Pending(m) /\ ~ok
          THEN Rejected(m, left)
          ELSE IF Pending(m) /\ left = {}
          THEN /\ mutation' = [mutation EXCEPT ![m] = SettledMutation(m, "succeeded", left)]
               /\ MutationSucceeds(m)
               /\ UNCHANGED <<store, db>>
          ELSE /\ mutation' = [mutation EXCEPT ![m].requests = left]
               /\ UNCHANGED <<photosQuery, inspectionQuery, store, db>>
       /\ UNCHANGED <<photosFetch, inspectionFetch, uuid, started>>

\* mutationFn of useUpdateInspectionItem: its requests go out one after the
\* other, and it resolves or throws with the last one answered
ItemAnswered(m, ok) ==
    /\ Pending(m)
    /\ mutation[m].phase = "item"
    /\ IF ok
       THEN /\ mutation' = [mutation EXCEPT ![m] = SettledMutation(m, "succeeded", {})]
            /\ UNCHANGED <<photosQuery, inspectionQuery, store, db>>
       ELSE Rejected(m, {})
    /\ UNCHANGED <<photosFetch, inspectionFetch, photoIndex, uuid, started, remote>>

\* the photos of an inspection: the query, its refetches and the four
\* mutations on it; a batch of one photo goes the way of an upload
MutationStep ==
    \/ PhotosFetchStarts
    \/ PhotosFetchLands
    \/ \E p \in PhotoIds : OtherClientUpload(p)
    \/ \E m \in Mutations, fromFile \in BOOLEAN : UploadPhoto(m, "c", fromFile)
    \/ \E m \in Mutations, ok \in BOOLEAN : FileRead(m, ok)
    \/ \E m \in Mutations, n \in 2..MaxBatch : BatchUploadPhotos(m, n)
    \/ \E m \in Mutations, id \in PhotoIds : DeletePhoto(m, id)
    \/ \E m \in Mutations, id \in PhotoIds : UpdatePhotoCaption(m, id, "c")
    \/ \E m \in Mutations, ok \in BOOLEAN : IndexRead(m, ok)
    \/ \E m \in Mutations, ok \in BOOLEAN : DataRead(m, ok)
    \/ \E m \in Mutations, ok \in BOOLEAN :
          \E req \in mutation[m].requests : WriteAnswered(m, req, ok)

\* the inspections: the queries, their refetches and the item mutation
ItemStep ==
    \/ \E i \in InspectionIds : InspectionFetchStarts(i)
    \/ \E i \in InspectionIds : InspectionFetchLands(i)
    \/ \E m \in Mutations, id \in QueryItemIds, f \in Fields :
          UpdateInspectionItem(m, id, f, "q")
    \/ \E m \in Mutations, ok \in BOOLEAN : ItemAnswered(m, ok)

\* ------------------------------------------------------------------------
\* usePhotoData: the query function of one photo
\* ------------------------------------------------------------------------
VARIABLES
    read          \* the call of the query function in progress

readVars == <<read>>

IdleRead ==
    [pc |-> "idle", inspectionId |-> <<>>, photoId |-> <<>>,
     cachedDataUrl |-> Null,   \* what photoCache.get resolved
     net |-> <<>>,             \* the requests sent to the server by this call
     outcome |-> "none",       \* "returned" | "threw"
     result |-> NoPhoto,
     writeFailed |-> FALSE]    \* photoCache.set met a fault it swallowed

ReadInit == read = IdleRead

\* (variant: the cache is not consulted)
IsCacheHit_Never(cachedDataUrl) == FALSE

\* `if (cachedDataUrl)`: null and '' are falsy
IsCacheHit(cachedDataUrl) == cachedDataUrl.len > 0

\* queryFn up to its first await that leaves the page: photoCache.get, and on
\* a miss POST /kv/get
ReadStart(inspectionId, photoId, fault) ==
    LET begun == [IdleRead EXCEPT !.inspectionId = inspectionId, !.photoId = photoId,
                                    !.cachedDataUrl = lastOp'.result]
    IN /\ read.pc = "idle"
       /\ CacheGet(inspectionId, photoId, fault)
       /\ UNCHANGED remote
       /\ IF lastOp'.outcome = "rejected"
          THEN read' = [begun EXCEPT !.pc = "done", !.outcome = "threw"]
          ELSE IF IsCacheHit(lastOp'.result)
          THEN read' = [begun EXCEPT !.pc = "done", !.outcome = "returned",
                                       !.result = Photo(<<>>, lastOp'.result)]
          ELSE read' = [begun EXCEPT
                          !.pc = "remote",
                          !.net = <<[endpoint |-> "/kv/get",
                                     keys |-> <<PhotoDataKey(inspectionId, photoId)>>]>>]

\* the reply of POST /kv/get; then photoCache.set of a photo with a payload
ReadReply(ok, fault) ==
    LET photoData == remote[read.net[1].keys[1]]
    IN /\ read.pc = "remote"
       /\ UNCHANGED remote
       /\ IF ~ok
          THEN /\ fault = "none"
               /\ read' = [read EXCEPT !.pc = "done", !.outcome = "threw"]
               /\ UNCHANGED cacheVars
          ELSE IF HasStorageKey(photoData)
          THEN /\ CacheSet(read.inspectionId, read.photoId, photoData.storage_key, fault)
               /\ IF lastOp'.outcome = "rejected"
                  THEN read' = [read EXCEPT !.pc = "done", !.outcome = "threw",
                                            !.writeFailed = TRUE]
                  ELSE read' = [read EXCEPT !.pc = "done", !.outcome = "returned",
                                            !.result = photoData,
                                            !.writeFailed = (fault # "none")]
          ELSE /\ fault = "none"
               /\ read' = [read EXCEPT !.pc = "done", !.outcome = "returned",
                                       !.result = photoData]
               /\ UNCHANGED cacheVars

\* the query has taken the result
ReadDone ==
    /\ read.pc = "done"
    /\ read' = IdleRead
    /\ UNCHANGED <<cacheVars, remote>>

ReadStep ==
    \/ \E ph \in Photos, f \in {"none", "open", "req"} : ReadStart(ph[1], ph[2], f)
    \/ \E ok \in BOOLEAN, f \in {"none", "size", "clean", "put"} : ReadReply(ok, f)
    \/ ReadDone
    \/ DeferredDelete("none") /\ UNCHANGED <<remote, read>>
    \/ \E ph \in Photos, u \in StoredUrls :
          RemoteSet(ph[1], ph[2], u) /\ UNCHANGED read
    \/ \E ph \in Photos : RemoteDelete(ph[1], ph[2]) /\ UNCHANGED read
    \/ \E t \in Instants : Advance(t) /\ UNCHANGED <<remote, read>>

\* ------------------------------------------------------------------------
\* useUpdateInspectionItem.mutationFn: the requests of a write of an item
\* ------------------------------------------------------------------------
VARIABLES
    remoteItems,   \* the values of the keys inspection-items:<id> in the table
    itemWrite      \* the calls of mutationFn: position and what they hold

writeVars == <<remoteItems, itemWrite>>

\* what getByPrefix(KEYS.inspections()) returns, and the items of each
InspectionOrder == <<<<"a">>, <<"b">>>>
StoredItems ==
    (<<"a">> :> <<Item(<<"i", "1">>, "p", "p"), Item(<<"i", "3">>, "p", "p")>>)
    @@ (<<"b">> :> <<Item(<<"i", "2">>, "p", "p")>>)
StoredItemIds == {<<"i", "1">>, <<"i", "2">>, <<"i", "3">>}

IdleWrite ==
    [pc |-> "idle",            \* "prefix" | "items" | "set" | "done"
     id |-> <<>>, field |-> "none", value |-> NoText,
     at |-> 0,                 \* the inspection of the list the loop is at
     items |-> <<>>,           \* the items read, with the update applied
     outcome |-> "none",       \* "resolved" | "threw"
     overlapped |-> {}]        \* the calls under way together with this one

WriteInit ==
    /\ remoteItems = StoredItems
    /\ itemWrite = [w \in Mutations |-> IdleWrite]

UnderWay(w) == itemWrite[w].pc \in {"prefix", "items", "set"}

\* items[itemIndex] = { ...items[itemIndex], ...updates }: the list that is
\* written is the list that was read, with the one item changed
ApplyUpdates(items, id, field, value) ==
    [n \in 1..Len(items) |->
        IF items[n].id = id THEN [items[n] EXCEPT ![field] = value] ELSE items[n]]

\* handleItemUpdate: mutateAsync starts mutationFn, which sends
\* getByPrefix(KEYS.inspections())
WriteBegin(w, id, field, value) ==
    LET others == {o \in Mutations \ {w} : UnderWay(o)}
    IN /\ itemWrite[w].pc = "idle"
       /\ \A n \in Mutations : n < w => itemWrite[n].pc # "idle"
       /\ itemWrite' = [n \in Mutations |->
             IF n = w
             THEN [IdleWrite EXCEPT !.pc = "prefix", !.id = id, !.field = field,
                                    !.value = value, !.overlapped = others]
             ELSE IF n \in others
             THEN [itemWrite[n] EXCEPT !.overlapped = @ \cup {w}]
             ELSE itemWrite[n]]
       /\ UNCHANGED remoteItems

Threw(w) == itemWrite' = [itemWrite EXCEPT ![w].pc = "done", ![w].outcome = "threw"]

\* the list of inspections arrives: the loop asks for the items of the first
PrefixAnswered(w, ok) ==
    /\ itemWrite[w].pc = "prefix"
    /\ IF ok THEN itemWrite' = [itemWrite EXCEPT ![w].pc = "items", ![w].at = 1]
       ELSE Threw(w)
    /\ UNCHANGED remoteItems

\* the items of an inspection arrive: the item is among them and the changed
\* list is sent with kvStore.set, or the loop goes on to the next inspection,
\* or throws 'Inspection item not found'
ItemsAnswered(w, ok) ==
    LET c == itemWrite[w]
        items == remoteItems[InspectionOrder[c.at]]
    IN /\ c.pc = "items"
       /\ UNCHANGED remoteItems
       /\ IF ~ok THEN Threw(w)
          ELSE IF \E n \in 1..Len(items) : items[n].id = c.id
          THEN itemWrite' = [itemWrite EXCEPT
                               ![w].pc = "set",
                               ![w].items = ApplyUpdates(items, c.id, c.field, c.value)]
          ELSE IF c.at < Len(InspectionOrder)
          THEN itemWrite' = [itemWrite EXCEPT ![w].at = c.at + 1]
          ELSE Threw(w)

\* POST /kv/set is answered: the server has replaced the list
SetAnswered(w, ok) ==
    LET c == itemWrite[w]
        inspectionId == InspectionOrder[c.at]
    IN /\ c.pc = "set"
       /\ IF ok
          THEN /\ remoteItems' = [remoteItems EXCEPT ![inspectionId] = c.items]
               /\ itemWrite' = [itemWrite EXCEPT ![w].pc = "done", ![w].outcome = "resolved"]
          ELSE /\ Threw(w)
               /\ UNCHANGED remoteItems

WriteStep ==
    \/ \E w \in Mutations, id \in StoredItemIds, f \in Fields, v \in TextValues :
          WriteBegin(w, id, f, v)
    \/ \E w \in Mutations, ok \in BOOLEAN : PrefixAnswered(w, ok)
    \/ \E w \in Mutations, ok \in BOOLEAN : ItemsAnswered(w, ok)
    \/ \E w \in Mutations, ok \in BOOLEAN : SetAnswered(w, ok)

\* ------------------------------------------------------------------------
\* PhotoCache calls that overlap: the transactions of IndexedDB
\* ------------------------------------------------------------------------
MaxCalls == 3            \* calls of set and get in a run

VARIABLES
    txq,          \* the transactions created and not yet run, in creation order
    calls         \* the calls made so far and how far each has come

txVars == <<txq, calls>>

\* a transaction of a call; `at` is Date.now() when it was created
Tx(call, kind, at) == [call |-> call, kind |-> kind, at |-> at]

Call(op, key, dataUrl) ==
    [op |-> op, key |-> key, dataUrl |-> dataUrl,
     done |-> FALSE,          \* the promise of the call has settled
     result |-> Null,         \* get: the value resolved
     expired |-> FALSE,       \* get: it read an expired entry
     overlapped |-> FALSE,    \* another call was under way when it was made
     afterExpired |-> FALSE]  \* set: its put wrote a fresh entry after a get
                              \*      had read the expired entry of the key

TxInit == txq = <<>> /\ calls = <<>>

\* a call is made: init() is awaited and the first transaction created
TxCall(c, kind) ==
    /\ Len(calls) < MaxCalls
    /\ db' = InitDb(db, FALSE)
    /\ calls' = Append(calls, [c EXCEPT !.overlapped =
                                  \E n \in 1..Len(calls) : ~calls[n].done])
    /\ txq' = Append(txq, Tx(Len(calls) + 1, kind, now))
    /\ UNCHANGED <<store, now>>

\* set: the first transaction is the getAll of getTotalSize
TxCallSet(inspectionId, photoId, dataUrl) ==
    TxCall(Call("set", CacheKey(inspectionId, photoId), dataUrl), "size")

\* get: the transaction of store.get(key)
TxCallGet(inspectionId, photoId) ==
    TxCall(Call("get", CacheKey(inspectionId, photoId), Null), "get")

\* the transaction at the head of the queue, and its call
Running(kind) == txq # <<>> /\ Head(txq).kind = kind
RunningCall == calls[Head(txq).call]

\* getTotalSize has read the store: set goes on to cleanOldest or to the put
TxSize ==
    LET sizeBytes == SizeOf(RunningCall.dataUrl)
        next == IF NeedsCleaning(getTotalSize(store), sizeBytes) THEN "clean" ELSE "put"
    IN /\ Running("size")
       /\ txq' = Append(Tail(txq), Tx(Head(txq).call, next, now))
       /\ UNCHANGED <<store, db, now, calls>>

\* the cursor of cleanOldest has run: set goes on to the put
TxClean ==
    /\ Running("clean")
    /\ \E ord \in TimestampOrders(store) :
          store' = cleanOldest(store, ord, SizeOf(RunningCall.dataUrl))
    /\ txq' = Append(Tail(txq), Tx(Head(txq).call, "put", now))
    /\ UNCHANGED <<db, now, calls>>

\* the put of set has run: the promise of set resolves
TxPut ==
    LET c == RunningCall
        n == Head(txq).call
    IN /\ Running("put")
       /\ store' = (c.key :> CachedPhoto(c.dataUrl, Head(txq).at)) @@ store
       /\ calls' = [calls EXCEPT ![n].done = TRUE,
                                 ![n].afterExpired =
                                    /\ ~IsExpired(Head(txq).at, now)
                                    /\ \E g \in 1..Len(calls) :
                                          /\ calls[g].op = "get"
                                          /\ calls[g].key = c.key
                                          /\ calls[g].expired]
       /\ txq' = Tail(txq)
       /\ UNCHANGED <<db, now>>

\* the request of get has succeeded: the promise of get resolves, and for an
\* expired entry delete is called without being awaited
TxGet ==
    LET c == RunningCall
        n == Head(txq).call
        cached == store[c.key]
    IN /\ Running("get")
       /\ IF cached = NoEntry
          THEN /\ calls' = [calls EXCEPT ![n].done = TRUE]
               /\ txq' = Tail(txq)
          ELSE IF IsExpired(cached.timestamp, now)
          THEN /\ calls' = [calls EXCEPT ![n].done = TRUE, ![n].expired = TRUE]
               /\ txq' = Append(Tail(txq), Tx(n, "delete", now))
          ELSE /\ calls' = [calls EXCEPT ![n].done = TRUE, ![n].result = cached.dataUrl]
               /\ txq' = Tail(txq)
       /\ UNCHANGED <<store, db, now>>

\* the delete that get started has run
TxDelete ==
    /\ Running("delete")
    /\ store' = [store EXCEPT ![RunningCall.key] = NoEntry]
    /\ txq' = Tail(txq)
    /\ UNCHANGED <<db, now, calls>>

TxStep ==
    \/ \E ph \in Photos, u \in DataUrls : TxCallSet(ph[1], ph[2], u)
    \/ \E ph \in Photos : TxCallGet(ph[1], ph[2])
    \/ TxSize
    \/ TxClean
    \/ TxPut
    \/ TxGet
    \/ TxDelete
    \/ \E t \in Instants : Advance(t) /\ UNCHANGED txVars

vars == <<cacheVars, fetchVars, debVars, mutVars, txVars, readVars, writeVars>>

\* the cache on a working medium
Init == CacheInit /\ FetchIdle /\ DebounceInit /\ MutInit /\ TxInit /\ ReadInit /\ WriteInit
Next == CacheStep({}) /\ UNCHANGED <<fetchVars, debVars, mutVars, txVars, readVars, writeVars>>
Spec == Init /\ [][Next]_vars

\* the same with the scheduling of the event loop: a started delete runs
FairSpec ==
    Init /\ [][Next]_vars /\ WF_vars(DeferredDelete("none") /\ UNCHANGED <<fetchVars, debVars, mutVars, txVars, readVars, writeVars>>)

\* the cache on a medium that can fail
FaultNext == CacheStep(MediumFaults) /\ UNCHANGED <<fetchVars, debVars, mutVars, txVars, readVars, writeVars>>
FaultSpec == Init /\ [][FaultNext]_vars

\* batchFetchPhotoData over the cache and the remote store, both fallible
FetchNext == FetchStep /\ UNCHANGED <<debVars, mutVars, txVars, readVars, writeVars>>
FetchSpec == Init /\ [][FetchNext]_vars

\* the edit page alone
DebounceNext == DebounceStep /\ UNCHANGED <<cacheVars, fetchVars, mutVars, txVars, readVars, writeVars>>
DebounceSpec == Init /\ [][DebounceNext]_vars

\* the query cache under the optimistic mutations on the photos
MutationNext == MutationStep /\ UNCHANGED <<now, pendingDel, lastOp, fetch, debVars, txVars, readVars, writeVars>>
MutationSpec == Init /\ [][MutationNext]_vars

\* overlapping calls of the cache, transaction by transaction
TxNext == TxStep /\ UNCHANGED <<pendingDel, lastOp, fetchVars, debVars, mutVars, readVars, writeVars>>
TxSpec == Init /\ [][TxNext]_vars

\* the query function of usePhotoData, one call at a time
ReadNext == ReadStep /\ UNCHANGED <<fetch, debVars, mutVars, txVars, writeVars>>
ReadSpec == Init /\ [][ReadNext]_vars

\* the writes of items the page has under way
WriteNext == WriteStep /\ UNCHANGED <<cacheVars, fetchVars, debVars, mutVars, txVars, readVars>>
WriteSpec == Init /\ [][WriteNext]_vars

\* the query cache under the optimistic mutation on the items
ItemNext == ItemStep /\ UNCHANGED <<now, pendingDel, lastOp, fetch, debVars, txVars, readVars, writeVars>>
ItemSpec == Init /\ [][ItemNext]_vars

TypeOK ==
    /\ db \in {"unopened", "open", "failed"}
    /\ now \in Instants
    /\ pendingDel \in AllKeys \cup {NoKey}
    /\ \A k \in AllKeys : store[k] = NoEntry \/ store[k].dataUrl \in DataUrls

\* ------------------------------------------------------------------------
\* Properties of the cache on a working medium (Spec, FairSpec)
\* ------------------------------------------------------------------------
NoOversizedEntry == \A k \in AllKeys : store[k].sizeBytes <= maxSizeBytes

\* C1: as long as no payload larger than capacityBytes is stored, the sum of
\* sizeBytes over the stored entries is at most capacityBytes (100 MB) after
\* every call, in particular after every set.
C1_EvictionBound == NoOversizedEntry => getTotalSize(store) <= maxSizeBytes

\* a set has just evicted and the store is filled to the brim
C1_Witness ==
    /\ lastOp.kind = "set"
    /\ lastOp.evicted >= 1
    /\ NoOversizedEntry
    /\ getTotalSize(store) = maxSizeBytes

\* C6: a set that evicts deletes oldest-first: every entry that is gone after
\* the set has a timestamp <= that of every other entry still stored, and the
\* key being inserted is stored when the set has completed.
C6_OldestFirst ==
    [][(lastOp'.kind = "set" /\ now' = now)
       => LET key == lastOp'.key
          IN /\ Present(store', key)
             /\ \A e \in AllKeys :
                  (Present(store, e) /\ ~Present(store', e)) =>
                     \A j \in AllKeys \ {key} :
                        Present(store', j) => store[e].timestamp <= store'[j].timestamp]_vars

\* a set has evicted an entry and left another, newer one in place
C6_Witness ==
    /\ lastOp.kind = "set"
    /\ lastOp.evicted >= 1
    /\ \E j \in AllKeys \ {lastOp.key} : Present(store, j) /\ store[j].timestamp < now

\* C7: a get of an entry older than the TTL (7 days) resolves a miss and the
\* entry is eventually removed; a get of an entry of age <= TTL resolves its
\* payload and leaves the entry in the store.
C7_ExpiryOnGet ==
    /\ [](lastOp.kind = "get" /\ lastOp.age > TtlMs => lastOp.result = Null)
    /\ [][(lastOp'.kind = "get" /\ now' = now /\ pendingDel = NoKey
             /\ lastOp'.age >= 0 /\ lastOp'.age <= TtlMs)
            => /\ lastOp'.result = store[lastOp'.key].dataUrl
               /\ store' = store /\ pendingDel' = NoKey]_vars
    /\ \A k \in AllKeys :
         (lastOp.kind = "get" /\ lastOp.key = k /\ lastOp.age > TtlMs /\ pendingDel = k)
            ~> ~Present(store, k)

\* a get has just read an entry one millisecond older than the TTL
C7_Witness ==
    /\ lastOp.kind = "get"
    /\ lastOp.age = TtlMs + 1
    /\ pendingDel = lastOp.key

\* C8: a get of k right after a set(k, v), with less than the TTL elapsed,
\* resolves exactly v.
C8_RoundTrip ==
    (lastOp.kind = "get" /\ lastOp.prevSet # Null /\ lastOp.age < TtlMs)
       => lastOp.result = lastOp.prevSet

\* a get that follows a set which had to evict on a full store
C8_Witness ==
    /\ lastOp.kind = "get"
    /\ lastOp.prevSet # Null
    /\ lastOp.result = lastOp.prevSet
    /\ getTotalSize(store) = maxSizeBytes

\* ------------------------------------------------------------------------
\* The cache on a failing medium (FaultSpec)
\* ------------------------------------------------------------------------
\* C9: no PhotoCache call rejects to its caller when the medium fails.
C9_NeverRejects == lastOp.outcome = "resolved"


\* ------------------------------------------------------------------------
\* Properties of batchFetchPhotoData (FetchSpec)
\* ------------------------------------------------------------------------
\* positions of the requested list that were not served by the cache
IsHit(n) == fetch.photoIds[n] \in DOMAIN fetch.cachedPhotos
MissPositions == {n \in 1..Len(fetch.photoIds) : ~IsHit(n)}
\* rank of position n among the positions in P
RankIn(P, n) == Cardinality({m \in P : m <= n})

\* C3: a call sends no request when every requested id is a cache hit and
\* otherwise exactly one POST /kv/mget, whose keys are the photo-data keys of
\* the requested ids that were not cache hits, in order; no per-item get.
C3_BatchCoalescing ==
    fetch.pc # "idle" =>
       /\ (MissPositions = {} => fetch.net = <<>>)
       /\ (MissPositions # {} =>
             /\ Len(fetch.net) = 1
             /\ fetch.net[1].endpoint = "/kv/mget"
             /\ Len(fetch.net[1].keys) = Cardinality(MissPositions)
             /\ \A n \in MissPositions :
                  fetch.net[1].keys[RankIn(MissPositions, n)] =
                     PhotoDataKey(fetch.inspectionId, fetch.photoIds[n]))

\* a call with one cache hit and one miss has received its single reply
C3_Witness ==
    /\ fetch.pc = "store"
    /\ Len(fetch.photoIds) = 2
    /\ Cardinality(MissPositions) = 1
    /\ Len(fetch.net) = 1

Returned == fetch.pc = "done" /\ fetch.outcome = "returned"

\* C5 as stated: the returned list has the length of the input list and its
\* i-th element is the record of photoIds[i], whatever the hit pattern.
C5_SameLengthAsInput ==
    Returned =>
       /\ Len(fetch.result) = Len(fetch.photoIds)
       /\ \A n \in 1..Len(fetch.result) : fetch.result[n].id = fetch.photoIds[n]

\* C5 (amended): the returned list holds, in input order, one record for each
\* requested id that is a cache hit or that the batch call returned non-null,
\* and omits the ids absent from both; a server value is attributed to the id
\* at its position in the list of missing ids.
ServerAt(n) ==
    LET r == RankIn(MissPositions, n)
    IN IF r \in DOMAIN fetch.serverPhotos THEN fetch.serverPhotos[r] ELSE NoPhoto

FoundPositions ==
    {n \in 1..Len(fetch.photoIds) : IsHit(n) \/ ServerAt(n) # NoPhoto}

C5_FoundInInputOrder ==
    Returned =>
       /\ Len(fetch.result) = Cardinality(FoundPositions)
       /\ \A n \in FoundPositions :
            LET r == fetch.result[RankIn(FoundPositions, n)]
            IN /\ r.id = fetch.photoIds[n]
               /\ r = IF IsHit(n)
                      THEN Photo(fetch.photoIds[n], fetch.cachedPhotos[fetch.photoIds[n]])
                      ELSE ServerAt(n)

\* a call returned a cache hit and a server photo, in that order
C5_Witness ==
    /\ Returned
    /\ Len(fetch.photoIds) = 2
    /\ Len(fetch.result) = 2
    /\ IsHit(1) /\ ~IsHit(2)

\* C10: a call during which a cache write failed still returns, and returns
\* what it would have returned otherwise.
C10_WriteFailureIgnored ==
    (fetch.pc = "done" /\ fetch.writeFailed) =>
       /\ fetch.outcome = "returned"
       /\ fetch.result =
             CombineResult(fetch.photoIds,
                           PhotoMap(fetch.cachedPhotos, fetch.missingPhotoIds,
                                    fetch.serverPhotos))

\* ------------------------------------------------------------------------
\* Properties of the debounced edits (DebounceSpec)
\* ------------------------------------------------------------------------
\* the writes issued for a field key, in order
WritesOf(k) ==
    LET ForKey(w) == FieldKey(w.id, w.field) = k
    IN SelectSeq(itemUpdates, ForKey)

\* the last edit of every burst of E: the next edit of the key, if any, came
\* a full window or more later
BurstEnds(E) ==
    {n \in 1..Len(E) : n = Len(E) \/ E[n + 1].at - E[n].at >= DEBOUNCE_MS}

\* bursts whose window has run out / has run out or is running out now
Settled(E) == {n \in BurstEnds(E) : n < Len(E) \/ clock - E[n].at > DEBOUNCE_MS}
Settling(E) == {n \in BurstEnds(E) : n < Len(E) \/ clock - E[n].at >= DEBOUNCE_MS}

\* the j-th smallest element of a set of positions
Nth(P, j) == CHOOSE n \in P : Cardinality({m \in P : m <= n}) = j

\* C4: for every field key, every burst of edits less than 500 ms apart has
\* produced exactly one write once its window has run out, and none before;
\* the write carries the value of the last edit of the burst and is issued
\* 500 ms after that edit.
C4_DebounceCoalescing ==
    \A k \in FieldKeys :
       LET E == edits[k]
           W == WritesOf(k)
       IN /\ Cardinality(Settled(E)) <= Len(W)
          /\ Len(W) <= Cardinality(Settling(E))
          /\ \A j \in 1..Len(W) :
               LET n == Nth(Settling(E), j)
               IN /\ W[j].value = E[n].value
                  /\ W[j].at = E[n].at + DEBOUNCE_MS

\* a burst of two edits with different values has produced its single write
C4_Witness ==
    \E k \in FieldKeys :
       /\ Len(edits[k]) = 2
       /\ edits[k][2].at - edits[k][1].at \in 1..(DEBOUNCE_MS - 1)
       /\ edits[k][1].value # edits[k][2].value
       /\ Len(WritesOf(k)) = 1

\* ------------------------------------------------------------------------
\* Properties of the optimistic mutations (MutationSpec)
\* ------------------------------------------------------------------------
\* C2: when a mutation that ran alone fails, the queries hold exactly what
\* they held when it started, whatever that was, no data included.
C2_RollbackExact ==
    [][\A m \in Mutations :
          (Pending(m) /\ mutation'[m].pc = "failed" /\ mutation[m].alone)
             => /\ photosQuery' = mutation[m].before.photos
                /\ inspectionQuery' = mutation[m].before.inspections]_vars

\* C15: a call that had cache hits and whose remote batch call failed still
\* returns, and returns the photos of the requested ids that were cache hits.
C15_HitsSurviveRemoteFailure ==
    (fetch.pc = "done" /\ fetch.remoteFailed /\ \E n \in 1..Len(fetch.photoIds) : IsHit(n)) =>
       /\ fetch.outcome = "returned"
       /\ \A n \in 1..Len(fetch.photoIds) :
            IsHit(n) => \E r \in 1..Len(fetch.result) :
                           fetch.result[r] = Photo(fetch.photoIds[n],
                                                   fetch.cachedPhotos[fetch.photoIds[n]])

\* the progress reports of a call: <<loaded, total>> each
Total == Len(fetch.photoIds)
DistinctHits == Cardinality({fetch.photoIds[n] : n \in 1..Total} \cap DOMAIN fetch.cachedPhotos)
Monotone(p) ==
    /\ \A n \in 1..Len(p) : p[n][1] <= p[n][2] /\ p[n][2] = Total
    /\ \A n \in 1..(Len(p) - 1) : p[n][1] <= p[n + 1][1]

\* C17 as stated: a call that returns for a non-empty list has first reported
\* (hits, total) and last (total, total), the loaded count never decreasing
\* nor exceeding total.
C17_ProgressEndsAtTotal ==
    (Returned /\ Total > 0) =>
       /\ Len(fetch.progress) >= 1
       /\ fetch.progress[1] = <<DistinctHits, Total>>
       /\ fetch.progress[Len(fetch.progress)] = <<Total, Total>>
       /\ Monotone(fetch.progress)

\* C17 (amended): the first report is (distinct ids found in the cache, total);
\* a call that had to ask the server reports (total, total) last; a call served
\* by the cache alone makes that single report, which is (total, total) exactly
\* when the list names no id twice; the loaded count never decreases nor
\* exceeds total.
C17_ProgressReports ==
    (Returned /\ Total > 0) =>
       /\ Len(fetch.progress) >= 1
       /\ fetch.progress[1] = <<DistinctHits, Total>>
       /\ MissPositions # {} =>
             /\ Len(fetch.progress) = 2
             /\ fetch.progress[2] = <<Total, Total>>
       /\ MissPositions = {} =>
             /\ Len(fetch.progress) = 1
             /\ (DistinctHits = Total) =
                   (\A a, b \in 1..Total : fetch.photoIds[a] = fetch.photoIds[b] => a = b)
       /\ Monotone(fetch.progress)

\* a call with one hit and one miss has reported (1, 2) and then (2, 2)
C17_Witness ==
    /\ Returned
    /\ fetch.progress = <<<<1, 2>>, <<2, 2>>>>

\* ------------------------------------------------------------------------
\* Further properties of the cache (Spec, FaultSpec)
\* ------------------------------------------------------------------------
\* C16: a set(k, v) that directly follows a set(k, v) of the same payload
\* leaves the stored keys, payloads and sizes as they were and changes only
\* the timestamp of k, which does not decrease.
C16_RepeatedSetKeepsStore ==
    [][(/\ lastOp.kind = "set" /\ lastOp'.kind = "set"
        /\ lastOp'.key = lastOp.key /\ lastOp'.dataUrl = lastOp.dataUrl)
       => /\ PresentKeys(store') = PresentKeys(store)
          /\ \A j \in PresentKeys(store) :
               /\ store'[j].dataUrl = store[j].dataUrl
               /\ store'[j].sizeBytes = store[j].sizeBytes
               /\ j # lastOp.key => store'[j].timestamp = store[j].timestamp
          /\ store'[lastOp.key].timestamp >= store[lastOp.key].timestamp]_vars

\* the requested ids that batchGet has to return: stored, not expired, and
\* looked up by a request that did not fail
ExpectedHits(s, inspectionId, photoIds, t, failed) ==
    {id \in photoIds \ failed :
        /\ Present(s, CacheKey(inspectionId, id))
        /\ t - s[CacheKey(inspectionId, id)].timestamp <= TtlMs}

\* C18: batchGet resolves, once, the map of exactly the requested ids that are
\* stored and not expired, each with its stored payload, whatever the order in
\* which the lookups complete; a lookup that fails makes a miss, not an error.
C18_BatchGetExactHits ==
    [][(lastOp'.kind = "batchGet" /\ lastOp' # lastOp)
       => LET hits == ExpectedHits(store, lastOp'.key, lastOp'.ids, now, lastOp'.failed)
          IN /\ lastOp'.outcome = "resolved"
             /\ lastOp'.resolves = 1
             /\ DOMAIN lastOp'.map = hits
             /\ \A id \in hits :
                  lastOp'.map[id] = store[CacheKey(lastOp'.key, id)].dataUrl
             /\ store' = store]_vars

\* a batchGet of two ids, one lookup failed, resolved the other id alone
C18_Witness ==
    /\ lastOp.kind = "batchGet"
    /\ Cardinality(lastOp.ids) = 2
    /\ Cardinality(lastOp.failed) = 1
    /\ Cardinality(DOMAIN lastOp.map) = 1

\* C19: delete(c, i) removes the entry 'c:i' and nothing else, and
\* deleteInspection(c) the entries whose key starts with 'c:' and nothing
\* else; both resolve, also when there is nothing to remove, and then leave
\* the store as it was.
C19_DeleteExact ==
    [][/\ lastOp'.kind = "delete" =>
            /\ lastOp'.outcome = "resolved"
            /\ \A k \in AllKeys :
                 store'[k] = IF k = lastOp'.key THEN NoEntry ELSE store[k]
       /\ lastOp'.kind = "deleteInspection" =>
            /\ lastOp'.outcome = "resolved"
            /\ \A k \in AllKeys :
                 store'[k] =
                    IF \E p \in PhotoIds : k = lastOp'.key \o <<":">> \o p
                    THEN NoEntry ELSE store[k]]_vars

\* deleteInspection has removed an entry and left that of the other inspection
C19_Witness ==
    /\ lastOp.kind = "deleteInspection"
    /\ lastOp.evicted = 1
    /\ Cardinality(PresentKeys(store)) = 1

\* ------------------------------------------------------------------------
\* Properties of the mutations on the photos (MutationSpec)
\* ------------------------------------------------------------------------
HasSettled(m) == mutation[m].pc \in {"succeeded", "failed"}
QueryIds == IF photosQuery.defined THEN IndexIds(photosQuery.value) ELSE {}

\* C20: for every mutation, at most one request to the remote store is
\* outstanding at any time between its start and its confirm or rollback.
C20_OneRequestAtATime ==
    \A m \in Mutations : Pending(m) => Cardinality(mutation[m].requests) <= 1

\* C11: once a delete mutation has settled, succeeded or failed, and its
\* requests are answered, the remote store holds the index entry of the photo
\* exactly if it holds its photo data: no index entry without the data, no
\* data without an index entry. The delete is the only mutation there has been.
C11_DeleteAtomic ==
    \A m \in Mutations :
        (/\ mutation[m].kind = "delete"
         /\ HasSettled(m)
         /\ mutation[m].requests = {}
         /\ started = 1)
        => LET id == mutation[m].variables.id
           IN (id \in IndexIds(photoIndex)) <=> HasData(remote, PhotoDataKey(Inspection, id))

\* C12: once an upload has been confirmed, the query holds a record under
\* each id the server stored and no entry under a temporary id of that upload,
\* in that state and in every later one, whatever other mutations settle.
C12_ConfirmedStays ==
    \A m \in Mutations :
        (mutation[m].kind \in {"upload", "batch"} /\ mutation[m].pc = "succeeded")
        => LET temp == mutation[m].context.optimisticPhotoIds
               server == mutation[m].variables.serverIds
           IN /\ \A n \in 1..Len(server) : server[n] \in QueryIds
              /\ \A n \in 1..Len(temp) : temp[n] \notin QueryIds

\* what a list shows of a mutation that was confirmed
EffectPresent(mut, list) ==
    LET v == mut.variables
        ids == IndexIds(list)
    IN IF mut.kind = "delete" THEN v.id \notin ids
       ELSE IF mut.kind = "caption"
       THEN \E n \in 1..Len(list) : list[n].id = v.id /\ list[n].caption = v.caption
       ELSE \A n \in 1..Len(v.serverIds) : v.serverIds[n] \in ids

\* what a list shows of a mutation that was rolled back: the photo it was
\* to delete, no caption it was to set, no photo it was to add
EffectAbsent(mut, list) ==
    LET v == mut.variables
        ids == IndexIds(list)
        temp == mut.context.optimisticPhotoIds
    IN IF mut.kind = "delete" THEN v.id \in ids
       ELSE IF mut.kind = "caption"
       THEN \A n \in 1..Len(list) : list[n].id = v.id => list[n].caption = NoCaption
       ELSE /\ \A n \in 1..Len(v.serverIds) : v.serverIds[n] \notin ids
            /\ \A n \in 1..Len(temp) : temp[n] \notin ids

\* two mutations on different photos
DifferentPhotos(a, b) ==
    \/ a.kind \in {"upload", "batch"}
    \/ b.kind \in {"upload", "batch"}
    \/ a.variables.id # b.variables.id

\* C13: two mutations on different photos of the inspection were pending at
\* the same time, started on a query that held data; with the step that
\* settles the second of them, one having failed and the other succeeded, the
\* query shows the effect of the one that succeeded and nothing of the one
\* that failed.
C13_IndependentSettle ==
    [][\A m, o \in Mutations :
          (/\ Pending(m) \/ Pending(o)
           /\ mutation'[m].pc = "failed"
           /\ mutation'[o].pc = "succeeded"
           /\ mutation'[o].serial \in mutation'[m].peers
           /\ started' = 2
           /\ mutation'[m].loaded /\ mutation'[o].loaded
           /\ DifferentPhotos(mutation'[m], mutation'[o])
           /\ IndexIds(photoIndex) = PhotoIds
           /\ \A r \in Mutations : mutation'[r].requests = {})
          => /\ photosQuery'.defined
             /\ EffectPresent(mutation'[o], photosQuery'.value)
             /\ EffectAbsent(mutation'[m], photosQuery'.value)]_vars

\* a fetch of the photos lands, a fetch of an inspection lands
PhotosLanding ==
    photosFetch.pc = "inflight" /\ photosFetch'.pc = "idle" /\ started' = started
InspectionLanding(i) ==
    /\ inspectionFetch[i].pc = "inflight"
    /\ inspectionFetch'[i].pc = "idle"
    /\ started' = started

RECURSIVE PrefixSize(_, _, _)
PrefixSize(s, ord, n) ==
    IF n = 0 THEN 0 ELSE s[ord[n]].sizeBytes + PrefixSize(s, ord, n - 1)

\* the length of the shortest oldest-first prefix of the store whose removal
\* leaves room for sizeBytes, the whole store if there is none
ShortestPrefix(s, ord, sizeBytes) ==
    LET enough == {n \in 0..Len(ord) :
                      getTotalSize(s) - PrefixSize(s, ord, n) + sizeBytes <= maxSizeBytes}
    IN IF enough = {} THEN Len(ord)
       ELSE CHOOSE n \in enough : \A m \in enough : n <= m

\* C24: a set of a key that is not stored, when it evicts, deletes the
\* shortest oldest-first prefix of the entries after which
\* currentTotal + sizeBytes <= capacityBytes, or all of them when no prefix
\* is enough.
C24_ShortestPrefixEvicted ==
    [][(/\ lastOp'.kind = "set" /\ now' = now
        /\ lastOp'.evicted >= 1
        /\ ~Present(store, lastOp'.key))
       => \A ord \in TimestampOrders(store) :
             lastOp'.evicted = ShortestPrefix(store, ord, SizeOf(lastOp'.dataUrl))]_vars

\* the photo a key of the cache belongs to
PhotoOfKey(key) == CHOOSE ph \in Photos : CacheKey(ph[1], ph[2]) = key

\* C30: for the same store and the same time, get and batchGet agree on
\* every key: a get resolves payload p exactly if a batchGet of any list with
\* its id holds the id with p, also for an entry whose age is the TTL;
\* batchGet leaves the store alone, and get changes it only through the
\* delete of the expired entry it read.
C30_GetAgreesWithBatchGet ==
    [][/\ (lastOp'.kind = "get" /\ lastOp'.outcome = "resolved" /\ db = "open"
           /\ pendingDel = NoKey /\ now' = now)
          => LET ph == PhotoOfKey(lastOp'.key)
             IN /\ store' = store
                /\ \A ids \in IdLists :
                      (\E n \in 1..Len(ids) : ids[n] = ph[2])
                      => LET map == BatchGetMap(store, ph[1], ids, now, {})
                         IN IF lastOp'.result = Null THEN ph[2] \notin DOMAIN map
                            ELSE ph[2] \in DOMAIN map /\ map[ph[2]] = lastOp'.result
                /\ pendingDel' # NoKey
                     => /\ pendingDel' = lastOp'.key
                        /\ lastOp'.result = Null
                        /\ Present(store, lastOp'.key)
       /\ (pendingDel # NoKey /\ pendingDel' = NoKey)
          => \A k \in DOMAIN store : k # pendingDel => store'[k] = store[k]
       /\ (lastOp'.kind = "batchGet" /\ now' = now)
          => store' = store /\ pendingDel' = pendingDel]_vars

\* a get has resolved the payload of an entry whose age is exactly the TTL
C30_Witness ==
    /\ lastOp.kind = "get"
    /\ lastOp.age = TtlMs
    /\ lastOp.result # Null

\* ------------------------------------------------------------------------
\* Properties of overlapping cache calls (TxSpec)
\* ------------------------------------------------------------------------

\* the calls of set made so far
SetCalls == {n \in 1..Len(calls) : calls[n].op = "set"}

\* C25: two calls of set on different keys, each with a payload that fits
\* the capacity, overlap; once both have completed the sizes in the store sum
\* to at most the capacity, and when the two payloads fit together neither
\* write is lost.
C25_ConcurrentSetsKeepCapacity ==
    (/\ txq = <<>>
     /\ Len(calls) = 2
     /\ SetCalls = {1, 2}
     /\ calls[2].overlapped
     /\ calls[1].key # calls[2].key
     /\ \A n \in SetCalls : SizeOf(calls[n].dataUrl) <= maxSizeBytes)
    => /\ getTotalSize(store) <= maxSizeBytes
       /\ (SizeOf(calls[1].dataUrl) + SizeOf(calls[2].dataUrl) <= maxSizeBytes
           => \A n \in SetCalls : /\ Present(store, calls[n].key)
                                  /\ store[calls[n].key].dataUrl = calls[n].dataUrl)

\* C28: a get that read an expired entry of a key never removes the entry a
\* set wrote to that key afterwards: once the set and the delete started by
\* the get have both completed, the key holds the payload of the set.
C28_DeferredDeleteSparesNewer ==
    \A s \in SetCalls :
       (/\ txq = <<>>
        /\ calls[s].afterExpired
        /\ \A n \in 1..Len(calls) : calls[n].key = calls[s].key
        /\ \A n \in SetCalls : n > s => ~calls[n].done)
       => /\ Present(store, calls[s].key)
          /\ store[calls[s].key].dataUrl = calls[s].dataUrl

\* ------------------------------------------------------------------------
\* Further properties of the mutations (MutationSpec, ItemSpec)
\* ------------------------------------------------------------------------

\* every mutation started has succeeded, and the server has answered every
\* request
AllSucceeded ==
    /\ started >= 1
    /\ Cardinality({m \in Mutations : mutation[m].pc = "succeeded"}) = started
    /\ \A m \in Mutations : mutation[m].requests = {}

\* the photo ids with a FullRecord under photo-data:a:<id>
RecordIds ==
    {remote[k].id : k \in {r \in DOMAIN remote :
                              /\ remote[r] # NoPhoto
                              /\ r = PhotoDataKey(Inspection, remote[r].id)}}

\* C26: once overlapping upload, batch upload, delete and caption mutations
\* on the inspection have all succeeded, the photo index lists exactly the
\* ids that have a FullRecord, each once.
C26_IndexMatchesRecords ==
    AllSucceeded
    => /\ IndexIds(photoIndex) = RecordIds
       /\ Cardinality(IndexIds(photoIndex)) = Len(photoIndex)

\* what the queries show of a mutation whose optimistic update is in them
Speculated(mut, photos, inspections) ==
    LET v == mut.variables
        temp == mut.context.optimisticPhotoIds
    IN IF mut.kind = "item"
       THEN \A i \in InspectionIds :
               inspections[i].defined
               => \A n \in 1..Len(inspections[i].value) :
                     inspections[i].value[n].id = v.id
                     => inspections[i].value[n][v.field] = v.value
       ELSE /\ photos.defined
            /\ IF mut.kind = "delete" THEN v.id \notin IndexIds(photos.value)
               ELSE IF mut.kind = "caption"
               THEN \A n \in 1..Len(photos.value) :
                       photos.value[n].id = v.id => photos.value[n].caption = v.caption
               ELSE /\ temp # <<>>
                    /\ \A n \in 1..Len(temp) : temp[n] \in IndexIds(photos.value)

\* the step in which mutation m starts (onMutate runs), and the step in
\* which its mutationFn sends its first request
Begins(m) == ~Pending(m) /\ mutation'[m].pc = "pending"
SendsFirst(m) ==
    /\ mutation[m].requests = {}
    /\ mutation'[m] # mutation[m]
    /\ mutation'[m].requests = {FirstRequest(mutation'[m].kind)}

StoreEvicts ==
    \E j \in 1..Len(fetch.serverPhotos) :
       /\ fetch.serverPhotos[j].storage_key.len > 0
       /\ NeedsCleaning(getTotalSize(store), SizeOf(fetch.serverPhotos[j].storage_key))

\* the step in which batchFetchPhotoData stores, merges and returns
FetchReturns == fetch.pc = "store" /\ fetch'.pc = "done" /\ fetch'.outcome = "returned"

\* after the step every photo the server returned with a payload is in the
\* cache with that payload and fresh, so that a get right after it is a hit,
\* unless an eviction of step 4 removed it; a photo returned with an empty
\* payload was not written
WrittenThrough ==
    \A n \in 1..Len(fetch.serverPhotos) :
       LET photo == fetch.serverPhotos[n]
           key == CacheKey(fetch.inspectionId, fetch.missingPhotoIds[n])
       IN photo # NoPhoto
          => IF photo.storage_key.len > 0
             THEN \/ /\ Present(store', key)
                     /\ store'[key].dataUrl = photo.storage_key
                     /\ ~IsExpired(store'[key].timestamp, now')
                  \/ StoreEvicts /\ ~Present(store', key)
             ELSE \/ store'[key] = store[key]
                  \/ StoreEvicts /\ ~Present(store', key)

ReadConsults == read.pc = "idle" /\ read'.pc # "idle" /\ read'.outcome # "threw"
ReadReturns == read.pc = "remote" /\ read'.pc = "done" /\ read'.outcome = "returned"

\* the key of the call, in the cache and on the server
ReadKey == CacheKey(read'.inspectionId, read'.photoId)
ReadRequest ==
    [endpoint |-> "/kv/get", keys |-> <<PhotoDataKey(read'.inspectionId, read'.photoId)>>]

\* a fresh entry is returned with no request sent; otherwise exactly one
\* get of the key of the photo is sent
CacheConsultedFirst ==
    IF /\ db' = "open"
       /\ Present(store, ReadKey)
       /\ ~IsExpired(store[ReadKey].timestamp, now)
    THEN /\ read'.net = <<>>
         /\ read'.outcome = "returned"
         /\ read'.result.storage_key = store[ReadKey].dataUrl
    ELSE /\ read'.net = <<ReadRequest>>
         /\ read'.outcome = "none"

\* what the call returns is what the server holds, fetched with that one
\* request, and a payload that is not empty is in the cache by then
ReadWrittenThrough ==
    /\ read'.net = <<ReadRequest>>
    /\ read'.result = remote[ReadRequest.keys[1]]
    /\ IF read'.result.storage_key.len > 0
       THEN /\ Present(store', ReadKey)
            /\ store'[ReadKey].dataUrl = read'.result.storage_key
            /\ store'[ReadKey].timestamp = now
       ELSE store' = store

WriteTimers(itemId, field) ==
    {t \in timers : t.kind = "write" /\ t.itemId = itemId /\ t.field = field}

WritesFor(itemId, field) ==
    LET ForField(w) == w.id = itemId /\ w.field = field
    IN SelectSeq(itemUpdates, ForField)

\* a field has at most one timer pending, and once none is pending the text
\* the page shows for it is the value of the last write issued for it
OwnTimerOwnWrite ==
    \A i \in ItemIds, f \in Fields :
       /\ Cardinality(WriteTimers(i, f)) <= 1
       /\ (WriteTimers(i, f) = {} /\ localItems[i][f] # NoText)
          => /\ WritesFor(i, f) # <<>>
             /\ WritesFor(i, f)[Len(WritesFor(i, f))].value = localItems[i][f]

\* a pending debounce timer goes away only by running or by an edit of its
\* own field, which starts the timer that replaces it
OnlyOwnTimerCancelled ==
    \A t \in timers :
       (t.kind = "write" /\ t \notin timers')
       => \/ itemUpdates' = Append(itemUpdates, [id |-> t.itemId, field |-> t.field,
                                                 value |-> t.value, at |-> clock])
          \/ \E n \in timers' \ timers :
                n.kind = "write" /\ n.itemId = t.itemId /\ n.field = t.field

\* C23: for every field key at most one debounce timer is pending; an edit
\* cancels and replaces only the timer of its own field key; bursts of edits
\* to two field keys each end in their own write with their own last value.
C23_TimerPerFieldKey == []OwnTimerOwnWrite /\ [][OnlyOwnTimerCancelled]_vars

\* the bursts of two fields have overlapped, the first field was edited
\* again while the timer of the second was pending, and each field has been
\* written with its own last value
C23_Witness ==
    \E i \in ItemIds :
       /\ Len(edits[FieldKey(i, "answer_text")]) = 2
       /\ Len(edits[FieldKey(i, "notes")]) = 1
       /\ edits[FieldKey(i, "answer_text")][1].at < edits[FieldKey(i, "notes")][1].at
       /\ edits[FieldKey(i, "notes")][1].at < edits[FieldKey(i, "answer_text")][2].at
       /\ edits[FieldKey(i, "answer_text")][2].at - edits[FieldKey(i, "answer_text")][1].at
             < DEBOUNCE_MS
       /\ Len(WritesFor(i, "answer_text")) = 1
       /\ Len(WritesFor(i, "notes")) = 1
       /\ WritesFor(i, "answer_text")[1].value # WritesFor(i, "notes")[1].value

\* ------------------------------------------------------------------------
\* Properties of the writes of items (WriteSpec)
\* ------------------------------------------------------------------------

\* the value the table holds for a field of an item
RemoteValue(id, field) ==
    LET inspectionId == CHOOSE i \in InspectionIds :
                           \E n \in 1..Len(remoteItems[i]) : remoteItems[i][n].id = id
        items == remoteItems[inspectionId]
        n == CHOOSE k \in 1..Len(items) : items[k].id = id
    IN items[n][field]

\* C29: two writes of different fields or different items of one inspection
\* were under way at the same time and both succeeded: the items the table
\* holds show both new values.
C29_BothWritesKept ==
    \A w, o \in Mutations :
       (/\ w # o
        /\ itemWrite[w].outcome = "resolved"
        /\ itemWrite[o].outcome = "resolved"
        /\ o \in itemWrite[w].overlapped
        /\ itemWrite[w].at = itemWrite[o].at
        /\ <<itemWrite[w].id, itemWrite[w].field>> # <<itemWrite[o].id, itemWrite[o].field>>)
       => /\ RemoteValue(itemWrite[w].id, itemWrite[w].field) = itemWrite[w].value
          /\ RemoteValue(itemWrite[o].id, itemWrite[o].field) = itemWrite[o].value

====
